---- MODULE Spec2Model ----
(***************************************************************************)
(* A model of rustorm's entity manager (src/src/entity.rs), of the record  *)
(* mapping generated by the FromDao / ToDao derives                        *)
(* (src/crates/codegen/src/dao_derive.rs) and of the Postgres column       *)
(* introspection (src/src/pg/column_info.rs).                              *)
(*                                                                         *)
(* The library is synchronous and keeps no state between calls, so the     *)
(* state of the model is the call in flight: which operation ran, with     *)
(* which arguments, which statements it handed to the database             *)
(* collaborator, what the collaborator answered and what the operation     *)
(* returned.  Every action is one whole call of one operation.             *)
(***************************************************************************)
EXTENDS Integers, Sequences, FiniteSets, TLC

VARIABLES
    op,      \* the operation that ran last ("none" before the first call)
    args,    \* its arguments
    calls,   \* the statements it handed to the collaborator, in order
    reply,   \* what the collaborator answered to the last of them
    result   \* what the operation returned (or that it panicked)

vars == <<op, args, calls, reply, result>>

----------------------------------------------------------------------------
(* Bounds of the model.                                                    *)

\* the most entities one insert is given
MaxEntities == 2
\* the most rows the collaborator returns to a query
MaxRows == 2
\* the most columns the column-list query gives for a table
MaxColumns == 2

----------------------------------------------------------------------------
(* Small helpers on sequences.                                             *)

Range(s) == {s[i] : i \in 1..Len(s)}

SeqsUpTo(S, n) == UNION {[1..k -> S] : k \in 0..n}

RECURSIVE Flatten(_)
Flatten(ss) == IF ss = <<>> THEN <<>> ELSE Head(ss) \o Flatten(Tail(ss))

\* Rust's [..].join(sep) on pieces that are themselves token sequences
RECURSIVE Join(_, _)
Join(pieces, sep) ==
    IF pieces = <<>> THEN <<>>
    ELSE IF Len(pieces) = 1 THEN Head(pieces)
    ELSE Head(pieces) \o <<sep>> \o Join(Tail(pieces), sep)

\* the elements of a finite set of integers, ascending
RECURSIVE Ascending(_)
Ascending(S) ==
    IF S = {} THEN <<>>
    ELSE LET m == CHOOSE x \in S : \A y \in S : x <= y
         IN  <<m>> \o Ascending(S \ {m})

----------------------------------------------------------------------------
(* Values.  A Value is the tagged union a Dao holds; a field of a record   *)
(* is a typed Rust value.  Both are kept as records of one shape so that   *)
(* any two of them can be compared.                                        *)

Nil == [tag |-> "Nil", n |-> 0, s |-> ""]
VInt(k) == [tag |-> "Int", n |-> k, s |-> ""]
VText(t) == [tag |-> "Text", n |-> 0, s |-> t]

\* the values a database row may hold in a column
ValueUniverse == {Nil, VInt(1), VText("TOM")}

\* typed field values: i32, String, Option<i32>
RustInt(k) == [some |-> TRUE, n |-> k, s |-> ""]
RustString(t) == [some |-> TRUE, n |-> 0, s |-> t]
RustNone == [some |-> FALSE, n |-> 0, s |-> ""]

FieldValues(ty) ==
    CASE ty = "i32" -> {RustInt(1), RustInt(2)}
      [] ty = "String" -> {RustString("TOM"), RustString("HANKS")}
      [] ty = "Option<i32>" -> {RustNone, RustInt(1)}

\* ToValue for a field of declared type ty
to_value(ty, rv) ==
    CASE ty = "i32" -> VInt(rv.n)
      [] ty = "String" -> VText(rv.s)
      [] ty = "Option<i32>" -> IF rv.some THEN VInt(rv.n) ELSE Nil

\* the conversion Dao::get makes from a Value to a field of declared type ty
from_value(ty, v) ==
    CASE ty = "i32" ->
            IF v.tag = "Int" THEN [ok |-> TRUE, rv |-> RustInt(v.n)]
            ELSE [ok |-> FALSE, rv |-> RustNone]
      [] ty = "String" ->
            IF v.tag = "Text" THEN [ok |-> TRUE, rv |-> RustString(v.s)]
            ELSE [ok |-> FALSE, rv |-> RustNone]
      [] ty = "Option<i32>" ->
            IF v.tag = "Nil" THEN [ok |-> TRUE, rv |-> RustNone]
            ELSE IF v.tag = "Int" THEN [ok |-> TRUE, rv |-> RustInt(v.n)]
            ELSE [ok |-> FALSE, rv |-> RustNone]

----------------------------------------------------------------------------
(* Record types.  A record type is what the mapping traits report of it:   *)
(* its table name, its column names (ToColumnNames) and its declared       *)
(* fields (what the FromDao / ToDao derives iterate over).                 *)

Field(name, ty) == [name |-> name, ty |-> ty]

\* insert_some_data's Actor
Actor ==
    [table |-> [schema |-> "", name |-> "actor"],
     columns |-> <<"first_name", "last_name">>,
     fields |-> <<Field("first_name", "String"), Field("last_name", "String")>>]

\* insert_some_data_with_different_retrieve's for_retrieve::Actor
RetrieveActor ==
    [table |-> [schema |-> "", name |-> "actor"],
     columns |-> <<"actor_id", "first_name">>,
     fields |-> <<Field("actor_id", "i32"), Field("first_name", "String")>>]

\* various_data_types_nulls' Sample
Sample ==
    [table |-> [schema |-> "public", name |-> "sample"],
     columns |-> <<"vnil", "vint">>,
     fields |-> <<Field("vnil", "Option<i32>"), Field("vint", "i32")>>]

\* a type whose column names are written by hand and differ from its fields
Partial ==
    [table |-> [schema |-> "", name |-> "actor"],
     columns |-> <<"first_name", "rating">>,
     fields |-> <<Field("first_name", "String"), Field("note", "Option<i32>")>>]

\* a struct without fields
Unit ==
    [table |-> [schema |-> "", name |-> "unit"],
     columns |-> <<>>,
     fields |-> <<>>]

RecordTypes == {Actor, RetrieveActor, Sample, Partial, Unit}

FieldNames(T) == {T.fields[i].name : i \in 1..Len(T.fields)}

FieldType(T, name) ==
    LET i == CHOOSE j \in 1..Len(T.fields) : T.fields[j].name = name
    IN  T.fields[i].ty

\* the values of type T
RecordsOf(T) ==
    {r \in [FieldNames(T) -> UNION {FieldValues(T.fields[i].ty) : i \in 1..Len(T.fields)}] :
        \A f \in FieldNames(T) : r[f] \in FieldValues(FieldType(T, f))}

\* TableName::complete_name
complete_name(table) ==
    IF table.schema = "" THEN table.name ELSE table.schema \o "." \o table.name

----------------------------------------------------------------------------
(* Dao: a mapping from column name to Value.                               *)

EmptyDao == [k \in {} |-> Nil]

\* Dao::insert
DaoInsert(dao, key, v) == [k \in (DOMAIN dao) \cup {key} |-> IF k = key THEN v ELSE dao[k]]

\* Dao::remove: the value taken out (if any) and the Dao left
DaoRemove(dao, key) ==
    IF key \in DOMAIN dao
    THEN [found |-> TRUE, value |-> dao[key],
          rest |-> [k \in (DOMAIN dao) \ {key} |-> dao[k]]]
    ELSE [found |-> FALSE, value |-> Nil, rest |-> dao]

\* Dao::get for a field of declared type ty
DaoGet(dao, key, ty) ==
    IF key \in DOMAIN dao THEN from_value(ty, dao[key])
    ELSE [ok |-> FALSE, rv |-> RustNone]

----------------------------------------------------------------------------
(* The generated record mapping.                                           *)

\* the body #[derive(ToDao)] generates: one dao.insert per declared field,
\* in declaration order, keyed by stringify!(field)
RECURSIVE to_dao_from(_, _, _)
to_dao_from(T, r, i) ==
    IF i = 0 THEN EmptyDao
    ELSE DaoInsert(to_dao_from(T, r, i - 1),
                   T.fields[i].name,
                   to_value(T.fields[i].ty, r[T.fields[i].name]))

\* to_dao with a field that holds None left out of the Dao
to_dao_skipping_none(T, r) ==
    LET full == to_dao_from(T, r, Len(T.fields))
    IN  [k \in {f \in DOMAIN full : full[f] # Nil} |-> full[k]]

to_dao(T, r) == to_dao_from(T, r, Len(T.fields))

\* from_dao with a field the Dao lacks filled with an empty value
from_dao_defaulting(T, dao) ==
    LET got == [f \in FieldNames(T) |->
                   IF f \in DOMAIN dao THEN DaoGet(dao, f, FieldType(T, f))
                   ELSE [ok |-> TRUE, rv |-> RustNone]]
    IN  IF \A f \in FieldNames(T) : got[f].ok
        THEN [panic |-> FALSE, rec |-> [f \in FieldNames(T) |-> got[f].rv]]
        ELSE [panic |-> TRUE, rec |-> EmptyDao]

\* the body #[derive(FromDao)] generates: one dao.get(..).unwrap() per
\* declared field; an absent or unconvertible entry panics
from_dao(T, dao) ==
    LET got == [f \in FieldNames(T) |-> DaoGet(dao, f, FieldType(T, f))]
    IN  IF \A f \in FieldNames(T) : got[f].ok
        THEN [panic |-> FALSE, rec |-> [f \in FieldNames(T) |-> got[f].rv]]
        ELSE [panic |-> TRUE, rec |-> EmptyDao]

\* rows.iter().map(from_dao): the records, or a panic at the first bad row
MapRows(T, rows) ==
    LET mapped == [i \in 1..Len(rows) |-> from_dao(T, rows[i])]
    IN  IF \E i \in 1..Len(rows) : mapped[i].panic
        THEN [panic |-> TRUE, recs |-> <<>>]
        ELSE [panic |-> FALSE, recs |-> [i \in 1..Len(rows) |-> mapped[i].rec]]

----------------------------------------------------------------------------
(* SQL text, kept as the sequence of pieces the format! calls put          *)
(* together: literal text, a name, or a positional placeholder $n.         *)

Lit(s) == [k |-> "lit", s |-> s, n |-> 0]
Id(s) == [k |-> "id", s |-> s, n |-> 0]
Ph(n) == [k |-> "ph", s |-> "$", n |-> n]

\* columns.iter().map(|c| c.name.to_owned()).collect().join(", ")
EnumeratedColumns(columns) ==
    Join([i \in 1..Len(columns) |-> <<Id(columns[i])>>], Lit(", "))

\* the SQL of get_all
SelectSql(T) ==
    <<Lit("SELECT ")>> \o EnumeratedColumns(T.columns)
        \o <<Lit(" FROM "), Id(complete_name(T.table))>>

\* PlaceholderGroup with the numbering starting again at $1 in every group
PlaceholderGroupPerRow(y, columns_len) ==
    <<Lit("\n\t(")>>
        \o Join([x1 \in 1..columns_len |-> <<Ph((x1 - 1) + 1)>>], Lit(", "))
        \o <<Lit(")")>>

\* one "\n\t($.., $..)" group of insert, for the entity at 0-based index y
PlaceholderGroup(y, columns_len) ==
    <<Lit("\n\t(")>>
        \o Join([x1 \in 1..columns_len |-> <<Ph(y * columns_len + (x1 - 1) + 1)>>], Lit(", "))
        \o <<Lit(")")>>

\* the SQL of insert
InsertSql(T, R, n) ==
    <<Lit("INSERT INTO "), Id(complete_name(T.table)), Lit(" ")>>
        \o <<Lit("(")>> \o EnumeratedColumns(T.columns) \o <<Lit(")\n")>>
        \o <<Lit("VALUES ")>>
        \o Join([y1 \in 1..n |-> PlaceholderGroup(y1 - 1, Len(T.columns))], Lit(", "))
        \o <<Lit("RETURNING ")>> \o EnumeratedColumns(R.columns)

\* EntityValues with a column the Dao lacks left out instead of bound to Nil
RECURSIVE EntityValuesOmitting(_, _, _)
EntityValuesOmitting(columns, dao, i) ==
    IF i > Len(columns) THEN <<>>
    ELSE LET taken == DaoRemove(dao, columns[i])
         IN  (IF taken.found THEN <<taken.value>> ELSE <<>>)
                \o EntityValuesOmitting(columns, taken.rest, i + 1)

\* the values of one entity, in T's column order: dao.remove(&col.name),
\* Value::Nil where the Dao has no such entry
RECURSIVE EntityValues(_, _, _)
EntityValues(columns, dao, i) ==
    IF i > Len(columns) THEN <<>>
    ELSE LET taken == DaoRemove(dao, columns[i])
         IN  <<IF taken.found THEN taken.value ELSE Nil>>
                \o EntityValues(columns, taken.rest, i + 1)

\* the parameter list of insert
InsertValues(T, entities) ==
    Flatten([y1 \in 1..Len(entities) |-> EntityValues(T.columns, to_dao(T, entities[y1]), 1)])

----------------------------------------------------------------------------
(* Reading a statement back: what a database sees in the text.             *)

IsId(t) == t.k = "id"
IsPh(t) == t.k = "ph"

Names(toks) == LET ids == SelectSeq(toks, IsId) IN [i \in 1..Len(ids) |-> ids[i].s]
Numbers(toks) == LET phs == SelectSeq(toks, IsPh) IN [i \in 1..Len(phs) |-> phs[i].n]

PositionsOf(sql, tok) == {i \in 1..Len(sql) : sql[i] = tok}

FirstAfter(sql, tok, from) ==
    LET S == {i \in PositionsOf(sql, tok) : i > from}
    IN  IF S = {} THEN Len(sql) + 1 ELSE CHOOSE i \in S : \A j \in S : i <= j

\* the column list of an INSERT: the names between "(" and ")\n"
InsertColumnsOf(sql) ==
    LET a == FirstAfter(sql, Lit("("), 0)
        b == FirstAfter(sql, Lit(")\n"), a)
    IN  Names(SubSeq(sql, a + 1, b - 1))

\* the RETURNING list of an INSERT
ReturningOf(sql) ==
    Names(SubSeq(sql, FirstAfter(sql, Lit("RETURNING "), 0) + 1, Len(sql)))

\* the select list of a SELECT: the names before " FROM "
SelectListOf(sql) == Names(SubSeq(sql, 1, FirstAfter(sql, Lit(" FROM "), 0) - 1))

\* the VALUES groups of an INSERT, each the placeholder numbers between an
\* opening "\n\t(" and the next ")"
ValueGroupsOf(sql) ==
    LET opens == Ascending(PositionsOf(sql, Lit("\n\t(")))
    IN  [g \in 1..Len(opens) |->
            Numbers(SubSeq(sql, opens[g] + 1, FirstAfter(sql, Lit(")"), opens[g]) - 1))]

----------------------------------------------------------------------------
(* The database collaborator: execute_sql_with_return(sql, params).        *)

\* the errors the collaborator may answer with
DbErrors == {"PlatformError(sql)", "PlatformError(connection)"}

\* the cardinality errors, raised by the entity manager itself
ZeroRecordReturned == "DataError(ZeroRecordReturned)"
MoreThan1RecordReturned == "DataError(MoreThan1RecordReturned)"

DbOk(rows) == [ok |-> TRUE, rows |-> rows, err |-> ""]
DbErr(e) == [ok |-> FALSE, rows |-> <<>>, err |-> e]
NoReply == [ok |-> FALSE, rows |-> <<>>, err |-> "none"]

\* the answers to a query whose rows are drawn from Rows
QueryReplies(Rows) ==
    {DbErr(e) : e \in DbErrors} \cup {DbOk(rows) : rows \in SeqsUpTo(Rows, MaxRows)}

\* the rows with exactly these columns
RowsWith(columns) == [columns -> ValueUniverse]

\* the rows an arbitrary statement may give to a caller expecting R: all of
\* R's fields, or all but one
RowsFor(R) ==
    RowsWith(FieldNames(R)) \cup UNION {RowsWith(FieldNames(R) \ {f}) : f \in FieldNames(R)}

\* whether an INSERT is one the database accepts
InsertWellFormed(sql, params) ==
    LET cols == InsertColumnsOf(sql)
        groups == ValueGroupsOf(sql)
    IN  /\ Len(cols) >= 1
        /\ Len(groups) >= 1
        /\ Len(ReturningOf(sql)) >= 1
        /\ \A g \in 1..Len(groups) :
              /\ Len(groups[g]) = Len(cols)
              /\ \A x \in 1..Len(cols) : groups[g][x] \in 1..Len(params)

\* INSERT .. VALUES .. RETURNING: one row per VALUES group, in the order of
\* the groups; a returned column holds what was bound for it in that group,
\* or a value the server generated (a serial) when it was not inserted
InsertedRows(sql, params) ==
    LET cols == InsertColumnsOf(sql)
        groups == ValueGroupsOf(sql)
        rets == ReturningOf(sql)
    IN  [g \in 1..Len(groups) |->
            [c \in Range(rets) |->
                IF c \in Range(cols)
                THEN params[groups[g][CHOOSE x \in 1..Len(cols) : cols[x] = c]]
                ELSE VInt(g)]]

InsertReplies(sql, params) ==
    {DbErr(e) : e \in DbErrors}
        \cup (IF InsertWellFormed(sql, params) THEN {DbOk(InsertedRows(sql, params))} ELSE {})

----------------------------------------------------------------------------
(* The entity manager.                                                     *)

Ok(recs) == [kind |-> "Ok", recs |-> recs, err |-> ""]
Err(e) == [kind |-> "Err", recs |-> <<>>, err |-> e]
Panic == [kind |-> "Panic", recs |-> <<>>, err |-> ""]
NoResult == [kind |-> "None", recs |-> <<>>, err |-> ""]

Call(sql, params) == [sql |-> sql, params |-> params]

\* `let rows = self.0.execute_sql_with_return(..)?;` followed by from_dao on
\* every row: the error as it came, or the records in row order
MappedReply(R, rep) ==
    IF ~rep.ok THEN Err(rep.err)
    ELSE LET m == MapRows(R, rep.rows)
         IN  IF m.panic THEN Panic ELSE Ok(m.recs)

\* get_all_calls with the bare table name in place of the complete name
get_all_calls_bare_table(T) ==
    <<Call(<<Lit("SELECT ")>> \o EnumeratedColumns(T.columns)
               \o <<Lit(" FROM "), Id(T.table.name)>>, <<>>)>>

\* the statements get_all hands to the collaborator
get_all_calls(T) == <<Call(SelectSql(T), <<>>)>>

\* what get_all returns on the collaborator's answer
get_all_result(T, rep) == MappedReply(T, rep)

\* pub fn get_all<T>(&self) -> Result<Vec<T>, DbError>
get_all(T) ==
    /\ op = "none"
    /\ op' = "get_all"
    /\ args' = [T |-> T]
    /\ calls' = get_all_calls(T)
    /\ \E rep \in QueryReplies(RowsWith(Range(T.columns))) :
          /\ reply' = rep
          /\ result' = get_all_result(T, rep)

\* insert_calls with one statement per entity instead of one for the batch
insert_calls_per_entity(T, R, entities) ==
    IF entities = <<>> THEN <<Call(InsertSql(T, R, 0), <<>>)>>
    ELSE [y1 \in 1..Len(entities) |->
            Call(InsertSql(T, R, 1), InsertValues(T, <<entities[y1]>>))]

\* the statements insert hands to the collaborator
insert_calls(T, R, entities) ==
    <<Call(InsertSql(T, R, Len(entities)), InsertValues(T, entities))>>

\* insert_result with the records in the reverse of the row order
insert_result_reversed(R, rep) ==
    LET r == MappedReply(R, rep)
    IN  [r EXCEPT !.recs = [i \in 1..Len(r.recs) |-> r.recs[Len(r.recs) + 1 - i]]]

\* what insert returns on the collaborator's answer
insert_result(R, rep) == MappedReply(R, rep)

\* pub fn insert<T, R>(&self, entities: &[&T]) -> Result<Vec<R>, DbError>
insert(T, R, entities) ==
    /\ op = "none"
    /\ op' = "insert"
    /\ args' = [T |-> T, R |-> R, entities |-> entities]
    /\ calls' = insert_calls(T, R, entities)
    /\ LET last == calls'[Len(calls')]
       IN  \E rep \in InsertReplies(last.sql, last.params) :
              /\ reply' = rep
              /\ result' = insert_result(R, rep)

\* params.iter().map(|param| param.to_value()).collect()
ParamValues(params) == [i \in 1..Len(params) |-> to_value(params[i].ty, params[i].rv)]

\* the statements and parameter lists the callers of execute_sql_* pass
Statements == {<<Lit("SELECT * FROM actor")>>, <<Lit("SELECT $1::INT as id, $2::TEXT as name")>>}
ParamLists ==
    {<<>>,
     <<[ty |-> "i32", rv |-> RustInt(1)], [ty |-> "String", rv |-> RustString("TOM")]>>,
     <<[ty |-> "Option<i32>", rv |-> RustNone]>>}

\* execute_sql_with_return_result with an error taken for an empty result
execute_sql_with_return_result_swallowing(R, rep) ==
    IF ~rep.ok THEN Ok(<<>>) ELSE MappedReply(R, rep)

\* what execute_sql_with_return returns on the collaborator's answer
execute_sql_with_return_result(R, rep) == MappedReply(R, rep)

\* pub fn execute_sql_with_return<R>(&self, sql, params) -> Result<Vec<R>, DbError>
execute_sql_with_return(R, sql, params) ==
    /\ op = "none"
    /\ op' = "execute_sql_with_return"
    /\ args' = [R |-> R, sql |-> sql, params |-> params]
    /\ calls' = <<Call(sql, ParamValues(params))>>
    /\ \E rep \in QueryReplies(RowsFor(R)) :
          /\ reply' = rep
          /\ result' = execute_sql_with_return_result(R, rep)

\* OneReturn with the first of several records returned instead of the error
OneReturnFirstOfMany(inner) ==
    IF inner.kind = "Ok"
    THEN CASE Len(inner.recs) = 0 -> Err(ZeroRecordReturned)
           [] OTHER -> Ok(<<inner.recs[1]>>)
    ELSE inner

\* the match of execute_sql_with_one_return on what execute_sql_with_return gave
OneReturn(inner) ==
    IF inner.kind = "Ok"
    THEN CASE Len(inner.recs) = 0 -> Err(ZeroRecordReturned)
           [] Len(inner.recs) = 1 -> Ok(<<inner.recs[1]>>)
           [] OTHER -> Err(MoreThan1RecordReturned)
    ELSE inner

\* pub fn execute_sql_with_one_return<R>(&self, sql, params) -> Result<R, DbError>
execute_sql_with_one_return(R, sql, params) ==
    /\ op = "none"
    /\ op' = "execute_sql_with_one_return"
    /\ args' = [R |-> R, sql |-> sql, params |-> params]
    /\ calls' = <<Call(sql, ParamValues(params))>>
    /\ \E rep \in QueryReplies(RowsFor(R)) :
          /\ reply' = rep
          /\ result' = OneReturn(execute_sql_with_return_result(R, rep))

----------------------------------------------------------------------------
(* Text of the catalog.  A default expression is taken apart character by  *)
(* character, so it is kept as a sequence of one-character strings.        *)

UpperCase == <<"A", "B", "C", "D", "E", "F", "G", "H", "I", "J", "K", "L", "M",
               "N", "O", "P", "Q", "R", "S", "T", "U", "V", "W", "X", "Y", "Z">>
LowerCase == <<"a", "b", "c", "d", "e", "f", "g", "h", "i", "j", "k", "l", "m",
               "n", "o", "p", "q", "r", "s", "t", "u", "v", "w", "x", "y", "z">>
DecimalDigits == <<"0", "1", "2", "3", "4", "5", "6", "7", "8", "9">>

\* the lower-case letter of each upper-case letter
LowerOf ==
    [c \in Range(UpperCase) |-> LowerCase[CHOOSE i \in 1..Len(UpperCase) : UpperCase[i] = c]]

ToLowerChar(c) == IF c \in DOMAIN LowerOf THEN LowerOf[c] ELSE c

\* str::to_lowercase
to_lowercase(s) == [i \in 1..Len(s) |-> ToLowerChar(s[i])]

\* str::starts_with, str::ends_with
starts_with(s, p) == Len(s) >= Len(p) /\ SubSeq(s, 1, Len(p)) = p
ends_with(s, p) == Len(s) >= Len(p) /\ SubSeq(s, Len(s) - Len(p) + 1, Len(s)) = p

\* str::trim_start_matches: the prefix is removed as often as it is there
RECURSIVE trim_start_matches(_, _)
trim_start_matches(s, p) ==
    IF p # <<>> /\ starts_with(s, p)
    THEN trim_start_matches(SubSeq(s, Len(p) + 1, Len(s)), p)
    ELSE s

\* str::trim_end_matches
RECURSIVE trim_end_matches(_, _)
trim_end_matches(s, p) ==
    IF p # <<>> /\ ends_with(s, p)
    THEN trim_end_matches(SubSeq(s, 1, Len(s) - Len(p)), p)
    ELSE s

\* str::trim_matches with a character pattern
trim_matches(s, c) == trim_end_matches(trim_start_matches(s, <<c>>), <<c>>)

\* where p first occurs in s, 0 when it does not
FindFirst(s, p) ==
    LET at == {i \in 1..(Len(s) - Len(p) + 1) : SubSeq(s, i, i + Len(p) - 1) = p}
    IN  IF at = {} THEN 0 ELSE CHOOSE i \in at : \A j \in at : i <= j

\* str::contains
contains(s, p) == FindFirst(s, p) # 0

\* str::split
RECURSIVE split(_, _)
split(s, p) ==
    LET i == FindFirst(s, p)
    IN  IF i = 0 THEN <<s>>
        ELSE <<SubSeq(s, 1, i - 1)>> \o split(SubSeq(s, i + Len(p), Len(s)), p)

\* the value of each decimal digit
ValueOfDigit ==
    [c \in Range(DecimalDigits) |->
        (CHOOSE i \in 1..Len(DecimalDigits) : DecimalDigits[i] = c) - 1]

IsDigit(c) == c \in DOMAIN ValueOfDigit
DigitValue(c) == ValueOfDigit[c]

RECURSIVE DigitsValue(_)
DigitsValue(s) ==
    IF s = <<>> THEN 0
    ELSE DigitsValue(SubSeq(s, 1, Len(s) - 1)) * 10 + DigitValue(s[Len(s)])

AllDigits(s) == \A i \in 1..Len(s) : IsDigit(s[i])

\* digits without their leading zeros
RECURSIVE StripZeros(_)
StripZeros(s) == IF Len(s) > 1 /\ s[1] = "0" THEN StripZeros(Tail(s)) ELSE s

\* a <= b for two digit sequences of one length
RECURSIVE DigitsLeq(_, _)
DigitsLeq(a, b) ==
    IF a = <<>> THEN TRUE
    ELSE IF DigitValue(a[1]) # DigitValue(b[1]) THEN DigitValue(a[1]) < DigitValue(b[1])
    ELSE DigitsLeq(Tail(a), Tail(b))

\* i64::MAX = 9223372036854775807 and the magnitude of i64::MIN
I64MaxDigits ==
    <<"9", "2", "2", "3", "3", "7", "2", "0", "3", "6", "8", "5", "4", "7", "7", "5",
      "8", "0", "7">>
I64MinDigits ==
    <<"9", "2", "2", "3", "3", "7", "2", "0", "3", "6", "8", "5", "4", "7", "7", "5",
      "8", "0", "8">>

\* whether the number of these digits, negated or not, is an i64
FitsI64(negative, digits) ==
    LET m == StripZeros(digits)
    IN  \/ Len(m) < Len(I64MaxDigits)
        \/ /\ Len(m) = Len(I64MaxDigits)
           /\ DigitsLeq(m, IF negative THEN I64MinDigits ELSE I64MaxDigits)

\* str::parse::<i64>: an optional sign and at least one digit, nothing else,
\* of a number that an i64 holds
parse_i64(s) ==
    LET signed == s # <<>> /\ s[1] \in {"+", "-"}
        digits == IF signed THEN Tail(s) ELSE s
    IN  IF digits # <<>> /\ AllDigits(digits) /\ FitsI64(signed /\ s[1] = "-", digits)
        THEN [ok |-> TRUE,
              n |-> IF signed /\ s[1] = "-" THEN 0 - DigitsValue(digits) ELSE DigitsValue(digits)]
        ELSE [ok |-> FALSE, n |-> 0]

\* str::parse::<bool>
parse_bool(s) ==
    IF s = <<"t", "r", "u", "e">> THEN [ok |-> TRUE, b |-> TRUE]
    ELSE IF s = <<"f", "a", "l", "s", "e">> THEN [ok |-> TRUE, b |-> FALSE]
    ELSE [ok |-> FALSE, b |-> FALSE]

\* a decimal number: the digits of its mantissa and the number of them that
\* follow the point, without leading zeros and without trailing zeros in the
\* fraction; zero has no sign
RECURSIVE Decimal(_, _, _)
Decimal(negative, digits, scale) ==
    IF scale > 0 /\ digits[Len(digits)] = "0"
    THEN Decimal(negative, SubSeq(digits, 1, Len(digits) - 1), scale - 1)
    ELSE LET m == StripZeros(digits)
         IN  [neg |-> negative /\ m # <<"0">>, digits |-> m, scale |-> scale]

NoDecimal == [neg |-> FALSE, digits |-> <<>>, scale |-> 0]

\* str::parse::<f64> on decimal notation: an optional sign, digits, at most
\* one point, at least one digit
parse_f64(s) ==
    LET signed == s # <<>> /\ s[1] \in {"+", "-"}
        body == IF signed THEN Tail(s) ELSE s
        parts == split(body, <<".">>)
        whole == parts[1]
        frac == IF Len(parts) = 2 THEN parts[2] ELSE <<>>
    IN  IF /\ Len(parts) <= 2
           /\ AllDigits(whole) /\ AllDigits(frac)
           /\ whole \o frac # <<>>
        THEN [ok |-> TRUE,
              d |-> Decimal(signed /\ s[1] = "-", <<"0">> \o whole \o frac, Len(frac))]
        ELSE [ok |-> FALSE, d |-> NoDecimal]

\* util::eval_f64: the value of a floating expression; here of a number
eval_f64(s) == parse_f64(s)

\* util::maybe_trim_parenthesis: one pair of surrounding parentheses removed
maybe_trim_parenthesis(s) ==
    IF Len(s) >= 2 /\ s[1] = "(" /\ s[Len(s)] = ")" THEN SubSeq(s, 2, Len(s) - 1) ELSE s

IsHex(c) == IsDigit(c) \/ ToLowerChar(c) \in {"a", "b", "c", "d", "e", "f"}

\* Uuid::parse_str on the hyphenated form
parse_uuid(s) ==
    IF /\ Len(s) = 36
       /\ \A i \in 1..36 : IF i \in {9, 14, 19, 24} THEN s[i] = "-" ELSE IsHex(s[i])
    THEN [ok |-> TRUE, uuid |-> to_lowercase(s)]
    ELSE [ok |-> FALSE, uuid |-> <<>>]

\* fn remove_value_cast(value: &str) -> String
remove_value_cast(value) ==
    IF contains(value, <<":", ":">>) THEN split(value, <<":", ":">>)[1] ELSE value

----------------------------------------------------------------------------
(* The column model: SqlType, Capacity, Literal, ColumnConstraint.  Each   *)
(* is a record of one shape, so that any two of them can be compared.      *)

\* SqlType::<t>; Array(<elem>) is t = "Array"; name and choices are an Enum's
Type(t) == [t |-> t, elem |-> "", name |-> "", choices |-> <<>>]
ArrayOf(elem) == [t |-> "Array", elem |-> elem, name |-> "", choices |-> <<>>]
EnumType(name, choices) == [t |-> "Enum", elem |-> "", name |-> name, choices |-> choices]
ArrayOfEnum(name, choices) == [t |-> "Array", elem |-> "Enum", name |-> name, choices |-> choices]

NoCapacity == [kind |-> "None", a |-> 0, b |-> 0]
Limit(n) == [kind |-> "Limit", a |-> n, b |-> 0]
CapacityRange(a, b) == [kind |-> "Range", a |-> a, b |-> b]

Literal(l) ==
    [lit |-> l, b |-> FALSE, n |-> 0, d |-> NoDecimal, str |-> <<>>,
     ints |-> <<>>, floats |-> <<>>, strs |-> <<>>]
LiteralNull == Literal("Null")
LiteralBool(v) == [Literal("Bool") EXCEPT !.b = v]
LiteralInteger(v) == [Literal("Integer") EXCEPT !.n = v]
LiteralDouble(v) == [Literal("Double") EXCEPT !.d = v]
LiteralString(v) == [Literal("String") EXCEPT !.str = v]
LiteralUuid(v) == [Literal("Uuid") EXCEPT !.str = v]
UuidGenerateV4 == Literal("UuidGenerateV4")
CurrentTimestamp == Literal("CurrentTimestamp")
CurrentDate == Literal("CurrentDate")
ArrayInt(v) == [Literal("ArrayInt") EXCEPT !.ints = v]
ArrayFloat(v) == [Literal("ArrayFloat") EXCEPT !.floats = v]
ArrayString(v) == [Literal("ArrayString") EXCEPT !.strs = v]

NotNull == [c |-> "NotNull", literal |-> Literal("-"), seq |-> <<>>]
DefaultValue(literal) == [c |-> "DefaultValue", literal |-> literal, seq |-> <<>>]
AutoIncrement(seq) == [c |-> "AutoIncrement", literal |-> Literal("-"), seq |-> seq]

----------------------------------------------------------------------------
(* The rows of the catalog.                                                *)

\* the native type names of the catalog rows
DataTypes ==
    {"boolean", "tinyint", "smallint", "integer", "integer[]", "bigint", "real",
     "float", "double precision", "numeric", "numeric(4,2)", "tinyblob",
     "mediumblob", "bytea", "longblob", "varbinary", "bpchar",
     "character varying(45)", "character varying[]", "tinytext", "mediumtext",
     "text", "jsonb", "tsvector", "text[]", "uuid", "date",
     "timestamp without time zone", "timestamp with time zone",
     "time with time zone", "time without time zone", "inet", "real[]", "point",
     "interval", "mpaa_rating", "mpaa_rating[]", "tsrange"}

\* the default expressions of the catalog rows
\* null
D_null == <<"n", "u", "l", "l">>
\* NULL
D_NULL == <<"N", "U", "L", "L">>
\* Null
D_Null == <<"N", "u", "l", "l">>
\* nextval('a_seq'::regclass)
D_nextval ==
    <<"n", "e", "x", "t", "v", "a", "l", "(", "'", "a", "_", "s", "e", "q",
      "'", ":", ":", "r", "e", "g", "c", "l", "a", "s", "s", ")">>
\* NEXTVAL('a_seq'::regclass)
D_NEXTVAL ==
    <<"N", "E", "X", "T", "V", "A", "L", "(", "'", "a", "_", "s", "e", "q",
      "'", ":", ":", "r", "e", "g", "c", "l", "a", "s", "s", ")">>
\* nextval('A_seq'::regclass)
D_nextval_Upper ==
    <<"n", "e", "x", "t", "v", "a", "l", "(", "'", "A", "_", "s", "e", "q",
      "'", ":", ":", "r", "e", "g", "c", "l", "a", "s", "s", ")">>
\* nextval('"A_seq"'::regclass)
D_nextval_quoted ==
    <<"n", "e", "x", "t", "v", "a", "l", "(", "'", "\"", "A", "_", "s", "e", "q",
      "\"", "'", ":", ":", "r", "e", "g", "c", "l", "a", "s", "s", ")">>
\* true
D_true == <<"t", "r", "u", "e">>
\* false
D_false == <<"f", "a", "l", "s", "e">>
\* 1
D_1 == <<"1">>
\* -7
D_minus_7 == <<"-", "7">>
\* (0)::numeric
D_numeric_0 == <<"(", "0", ")", ":", ":", "n", "u", "m", "e", "r", "i", "c">>
\* 4.99
D_4_99 == <<"4", ".", "9", "9">>
\* NULL::numeric
D_null_numeric ==
    <<"N", "U", "L", "L", ":", ":", "n", "u", "m", "e", "r", "i", "c">>
\* '12'::numeric
D_quoted_12 ==
    <<"'", "1", "2", "'", ":", ":", "n", "u", "m", "e", "r", "i", "c">>
\* '-4.99'::numeric
D_quoted_fraction ==
    <<"'", "-", "4", ".", "9", "9", "'", ":", ":", "n", "u", "m", "e", "r", "i", "c">>
\* uuid_generate_v4()
D_uuid_generate_v4 ==
    <<"u", "u", "i", "d", "_", "g", "e", "n", "e", "r", "a", "t", "e", "_",
      "v", "4", "(", ")">>
\* d25af116-fb30-4731-9cf9-2251c235e8fa
D_uuid ==
    <<"d", "2", "5", "a", "f", "1", "1", "6", "-", "f", "b", "3", "0", "-",
      "4", "7", "3", "1", "-", "9", "c", "f", "9", "-", "2", "2", "5", "1",
      "c", "2", "3", "5", "e", "8", "f", "a">>
\* now()
D_now == <<"n", "o", "w", "(", ")">>
\* timezone('utc'::text, now())
D_timezone_now ==
    <<"t", "i", "m", "e", "z", "o", "n", "e", "(", "'", "u", "t", "c", "'",
      ":", ":", "t", "e", "x", "t", ",", " ", "n", "o", "w", "(", ")", ")">>
\* today()
D_today == <<"t", "o", "d", "a", "y", "(", ")">>
\* ('now'::text)::date
D_now_text_date ==
    <<"(", "'", "n", "o", "w", "'", ":", ":", "t", "e", "x", "t", ")", ":",
      ":", "d", "a", "t", "e">>
\* 'G'::mpaa_rating
D_G_rating ==
    <<"'", "G", "'", ":", ":", "m", "p", "a", "a", "_", "r", "a", "t", "i",
      "n", "g">>
\* 'b'::character varying
D_b_varying ==
    <<"'", "b", "'", ":", ":", "c", "h", "a", "r", "a", "c", "t", "e", "r",
      " ", "v", "a", "r", "y", "i", "n", "g">>
\* 'x'
D_plain_text == <<"'", "x", "'">>
\* '::1'::text
D_colons_text == <<"'", ":", ":", "1", "'", ":", ":", "t", "e", "x", "t">>
\* '2020-01-01'::date
D_date_literal ==
    <<"'", "2", "0", "2", "0", "-", "0", "1", "-", "0", "1", "'", ":", ":", "d", "a",
      "t", "e">>
\* '{2,1,2}'::integer[]
D_int_array ==
    <<"'", "{", "2", ",", "1", ",", "2", "}", "'", ":", ":", "i", "n", "t",
      "e", "g", "e", "r", "[", "]">>
\* '{}'::integer[]
D_empty_array ==
    <<"'", "{", "}", "'", ":", ":", "i", "n", "t", "e", "g", "e", "r", "[",
      "]">>
\* '{2,x}'::integer[]
D_bad_int_array ==
    <<"'", "{", "2", ",", "x", "}", "'", ":", ":", "i", "n", "t", "e", "g",
      "e", "r", "[", "]">>
\* '{-3,+10}'::integer[]
D_signed_int_array ==
    <<"'", "{", "-", "3", ",", "+", "1", "0", "}", "'", ":", ":", "i", "n", "t",
      "e", "g", "e", "r", "[", "]">>
\* '{1,9223372036854775808}'::integer[]
D_big_int_array ==
    <<"'", "{", "1", ",", "9", "2", "2", "3", "3", "7", "2", "0", "3", "6", "8",
      "5", "4", "7", "7", "5", "8", "0", "8", "}", "'", ":", ":", "i", "n", "t",
      "e", "g", "e", "r", "[", "]">>
\* '{1.5,2}'::real[]
D_float_array ==
    <<"'", "{", "1", ".", "5", ",", "2", "}", "'", ":", ":", "r", "e", "a",
      "l", "[", "]">>
\* '{Mon,Wed}'::text[]
D_text_array ==
    <<"'", "{", "M", "o", "n", ",", "W", "e", "d", "}", "'", ":", ":", "t",
      "e", "x", "t", "[", "]">>
\* abc
D_garbage == <<"a", "b", "c">>

DefaultTexts ==
    {D_null,
     D_NULL,
     D_Null,
     D_nextval,
     D_NEXTVAL,
     D_nextval_Upper,
     D_nextval_quoted,
     D_true,
     D_false,
     D_1,
     D_minus_7,
     D_numeric_0,
     D_4_99,
     D_null_numeric,
     D_quoted_12,
     D_quoted_fraction,
     D_uuid_generate_v4,
     D_uuid,
     D_now,
     D_timezone_now,
     D_today,
     D_now_text_date,
     D_date_literal,
     D_G_rating,
     D_b_varying,
     D_plain_text,
     D_colons_text,
     D_int_array,
     D_empty_array,
     D_bad_int_array,
     D_signed_int_array,
     D_big_int_array,
     D_float_array,
     D_text_array,
     D_garbage}

None == [some |-> FALSE, s |-> <<>>]
Some(s) == [some |-> TRUE, s |-> s]

\* the labels of the enum mpaa_rating
MpaaRating == <<"G", "PG", "PG-13", "R", "NC-17">>

\* how the catalog flags a column of a native type: typtype = 'e' for an
\* enum, typcategory = 'A' for an array, with the labels of the enum or of
\* the array's element type
EnumFlags(data_type) ==
    [is_enum |-> data_type = "mpaa_rating",
     is_array_enum |-> data_type \in {"integer[]", "character varying[]", "text[]",
                                      "real[]", "mpaa_rating[]"},
     enum_choices |-> IF data_type = "mpaa_rating" THEN MpaaRating ELSE <<>>,
     array_enum_choices |-> IF data_type = "mpaa_rating[]" THEN MpaaRating ELSE <<>>]

\* struct ColumnConstraintSimple
ColumnConstraintSimple(not_null, data_type, default) ==
    [not_null |-> not_null, data_type |-> data_type, default |-> default,
     is_enum |-> EnumFlags(data_type).is_enum,
     is_array_enum |-> EnumFlags(data_type).is_array_enum,
     enum_choices |-> EnumFlags(data_type).enum_choices,
     array_enum_choices |-> EnumFlags(data_type).array_enum_choices]

\* the labels of an enum that its schema names "year", a name the native
\* type table knows too
YearLabels == <<"2020", "2019">>

\* the catalog rows of the columns of type year and year[]
YearEnumRows ==
    {[ColumnConstraintSimple(nn, "year", df) EXCEPT
          !.is_enum = TRUE, !.enum_choices = YearLabels] :
        nn \in BOOLEAN, df \in {None, Some(D_plain_text)}}
    \cup
    {[ColumnConstraintSimple(nn, "year[]", None) EXCEPT
          !.is_array_enum = TRUE, !.array_enum_choices = YearLabels] :
        nn \in BOOLEAN}

\* the rows the per-column catalog query may give
CatalogRows ==
    {ColumnConstraintSimple(nn, dt, df) :
        nn \in BOOLEAN, dt \in DataTypes, df \in {None} \cup {Some(t) : t \in DefaultTexts}}
    \cup YearEnumRows

\* the rows of the answers of more than one row
FewCatalogRows ==
    {ColumnConstraintSimple(TRUE, "integer", Some(D_nextval)),
     ColumnConstraintSimple(FALSE, "text", None)}

----------------------------------------------------------------------------
(* Column introspection: get_column_specification.                         *)

\* common::extract_datatype_with_capacity: the type name without its
\* parenthesized suffix, and the capacity the suffix states
extract_datatype_with_capacity(data_type) ==
    CASE data_type = "character varying(45)" ->
            [dtype |-> "character varying", capacity |-> Limit(45)]
      [] data_type = "numeric(4,2)" ->
            [dtype |-> "numeric", capacity |-> CapacityRange(4, 2)]
      [] OTHER -> [dtype |-> data_type, capacity |-> NoCapacity]

\* the match of get_sql_type_capacity on the native type name
NativeType(dtype) ==
    CASE dtype = "boolean" -> Type("Bool")
      [] dtype = "tinyint" -> Type("Tinyint")
      [] dtype \in {"smallint", "year"} -> Type("Smallint")
      [] dtype \in {"int", "integer"} -> Type("Int")
      [] dtype \in {"int[]", "integer[]"} -> ArrayOf("Int")
      [] dtype = "bigint" -> Type("Bigint")
      [] dtype = "real" -> Type("Real")
      [] dtype = "float" -> Type("Float")
      [] dtype \in {"double", "double precision"} -> Type("Double")
      [] dtype = "numeric" -> Type("Numeric")
      [] dtype = "tinyblob" -> Type("Tinyblob")
      [] dtype = "mediumblob" -> Type("Mediumblob")
      [] dtype = "blob" -> Type("Blob")
      [] dtype = "bytea" -> Type("Blob")
      [] dtype = "longblob" -> Type("Longblob")
      [] dtype = "varbinary" -> Type("Varbinary")
      [] dtype \in {"char", "bpchar"} -> Type("Char")
      [] dtype \in {"varchar", "character varying", "character", "name"} -> Type("Varchar")
      [] dtype \in {"varchar[]", "character varying[]", "name[]"} -> ArrayOf("Text")
      [] dtype = "tinytext" -> Type("Tinytext")
      [] dtype = "mediumtext" -> Type("Mediumtext")
      [] dtype = "text" -> Type("Text")
      [] dtype \in {"json", "jsonb"} -> Type("Json")
      [] dtype = "tsvector" -> Type("TsVector")
      [] dtype = "text[]" -> ArrayOf("Text")
      [] dtype = "uuid" -> Type("Uuid")
      [] dtype = "date" -> Type("Date")
      [] dtype \in {"timestamp", "timestamp without time zone"} -> Type("Timestamp")
      [] dtype = "timestamp with time zone" -> Type("TimestampTz")
      [] dtype = "time with time zone" -> Type("TimeTz")
      [] dtype = "time without time zone" -> Type("Time")
      [] dtype = "inet" -> Type("IpAddress")
      [] dtype = "real[]" -> ArrayOf("Float")
      [] dtype = "oid" -> Type("Int")
      [] dtype = "unknown" -> Type("Text")
      [] dtype = "\"char\"" -> Type("Char")
      [] dtype = "point" -> Type("Point")
      [] dtype = "interval" -> Type("Interval")
      [] OTHER -> Type("not yet handled")

\* get_sql_type_capacity asking the native type table before the flags
get_sql_type_capacity_native_first(row) ==
    LET ex == extract_datatype_with_capacity(row.data_type)
    IN  IF NativeType(ex.dtype).t # "not yet handled"
        THEN [panic |-> FALSE, sql_type |-> NativeType(ex.dtype), capacity |-> ex.capacity]
        ELSE IF row.is_enum
        THEN [panic |-> FALSE, sql_type |-> EnumType(row.data_type, row.enum_choices),
              capacity |-> NoCapacity]
        ELSE IF row.is_array_enum /\ row.array_enum_choices # <<>>
        THEN [panic |-> FALSE,
              sql_type |-> ArrayOfEnum(row.data_type, row.array_enum_choices),
              capacity |-> NoCapacity]
        ELSE [panic |-> TRUE, sql_type |-> Type("not yet handled"), capacity |-> NoCapacity]

\* fn get_sql_type_capacity(&self) -> (SqlType, Option<Capacity>)
get_sql_type_capacity(row) ==
    LET ex == extract_datatype_with_capacity(row.data_type)
    IN  IF row.is_enum
        THEN [panic |-> FALSE, sql_type |-> EnumType(row.data_type, row.enum_choices),
              capacity |-> NoCapacity]
        ELSE IF row.is_array_enum /\ row.array_enum_choices # <<>>
        THEN [panic |-> FALSE,
              sql_type |-> ArrayOfEnum(row.data_type, row.array_enum_choices),
              capacity |-> NoCapacity]
        ELSE IF NativeType(ex.dtype).t = "not yet handled"
        THEN [panic |-> TRUE, sql_type |-> Type("not yet handled"), capacity |-> NoCapacity]
        ELSE [panic |-> FALSE, sql_type |-> NativeType(ex.dtype), capacity |-> ex.capacity]

Fatal == [panic |-> TRUE, literal |-> Literal("-")]
Parsed(literal) == [panic |-> FALSE, literal |-> literal]

\* the text between the quotes and braces of an array default
ArrayBody(default) ==
    trim_end_matches(
        trim_start_matches(trim_matches(remove_value_cast(default), "'"), <<"{">>),
        <<"}">>)

\* FloatDefault giving the text to the integer parser with its quotes
FloatDefaultQuotesKept(default) ==
    LET default_value == maybe_trim_parenthesis(remove_value_cast(default))
    IN  IF to_lowercase(default_value) = <<"n", "u", "l", "l">> THEN Parsed(LiteralNull)
        ELSE IF parse_i64(default_value).ok
        THEN Parsed(LiteralInteger(parse_i64(default_value).n))
        ELSE IF eval_f64(default_value).ok THEN Parsed(LiteralDouble(eval_f64(default_value).d))
        ELSE Fatal

\* the arm of to_column_constraints for Float, Double, Real and Numeric
FloatDefault(default) ==
    LET default_value == maybe_trim_parenthesis(remove_value_cast(default))
        trimmed == trim_matches(default_value, "'")
    IN  IF to_lowercase(default_value) = <<"n", "u", "l", "l">> THEN Parsed(LiteralNull)
        ELSE IF parse_i64(trimmed).ok THEN Parsed(LiteralInteger(parse_i64(trimmed).n))
        ELSE IF eval_f64(default_value).ok THEN Parsed(LiteralDouble(eval_f64(default_value).d))
        ELSE Fatal

\* IntArrayDefault without the case of the empty braces
IntArrayDefaultNoEmptyCase(default) ==
    LET trimmed_values == ArrayBody(default)
        pieces == split(trimmed_values, <<",">>)
    IN  IF \A i \in 1..Len(pieces) : parse_i64(pieces[i]).ok
        THEN Parsed(ArrayInt([i \in 1..Len(pieces) |-> parse_i64(pieces[i]).n]))
        ELSE Fatal

\* the arm of to_column_constraints for arrays of Int, Tinyint, Smallint, Bigint
IntArrayDefault(default) ==
    LET trimmed_values == ArrayBody(default)
        pieces == split(trimmed_values, <<",">>)
    IN  IF trimmed_values = <<>> THEN Parsed(ArrayInt(<<>>))
        ELSE IF \A i \in 1..Len(pieces) : parse_i64(pieces[i]).ok
        THEN Parsed(ArrayInt([i \in 1..Len(pieces) |-> parse_i64(pieces[i]).n]))
        ELSE Fatal

\* the arm of to_column_constraints for arrays of Real, Float, Double, Numeric
FloatArrayDefault(default) ==
    LET trimmed_values == ArrayBody(default)
        pieces == split(trimmed_values, <<",">>)
    IN  IF trimmed_values = <<>> THEN Parsed(ArrayInt(<<>>))
        ELSE IF \A i \in 1..Len(pieces) : parse_f64(pieces[i]).ok
        THEN Parsed(ArrayFloat([i \in 1..Len(pieces) |-> parse_f64(pieces[i]).d]))
        ELSE Fatal

\* the arm of to_column_constraints for arrays of Text, Varchar, Tinytext, Mediumtext
TextArrayDefault(default) == Parsed(ArrayString(split(ArrayBody(default), <<",">>)))

\* TimestampDefault failing on a default it does not recognise
TimestampDefaultStrict(default) ==
    IF default = D_now \/ default = D_timezone_now THEN Parsed(CurrentTimestamp)
    ELSE Fatal

\* the arm of to_column_constraints for Timestamp and TimestampTz
TimestampDefault(default) ==
    IF default = D_now \/ default = D_timezone_now THEN Parsed(CurrentTimestamp)
    ELSE Parsed(LiteralNull)

\* DateDefault giving Null for a default it does not recognise
DateDefaultLenient(default) ==
    IF default = D_today \/ default = D_now \/ default = D_now_text_date
    THEN Parsed(CurrentDate)
    ELSE Parsed(LiteralNull)

\* the arm of to_column_constraints for Date
DateDefault(default) ==
    IF default = D_today \/ default = D_now \/ default = D_now_text_date
    THEN Parsed(CurrentDate)
    ELSE Fatal

\* the match of to_column_constraints on the resolved type, for a default
\* that is neither "null" nor a nextval expression
DefaultLiteral(sql_type, default) ==
    CASE sql_type.t = "Bool" ->
            IF parse_bool(default).ok THEN Parsed(LiteralBool(parse_bool(default).b)) ELSE Fatal
      [] sql_type.t \in {"Int", "Smallint", "Tinyint", "Bigint"} ->
            IF parse_i64(default).ok THEN Parsed(LiteralInteger(parse_i64(default).n)) ELSE Fatal
      [] sql_type.t \in {"Float", "Double", "Real", "Numeric"} -> FloatDefault(default)
      [] sql_type.t = "Uuid" ->
            IF default = D_uuid_generate_v4 THEN Parsed(UuidGenerateV4)
            ELSE IF parse_uuid(default).ok THEN Parsed(LiteralUuid(parse_uuid(default).uuid))
            ELSE Fatal
      [] sql_type.t \in {"Timestamp", "TimestampTz"} -> TimestampDefault(default)
      [] sql_type.t = "Date" -> DateDefault(default)
      [] sql_type.t \in {"Varchar", "Char", "Tinytext", "Mediumtext", "Text"} ->
            Parsed(LiteralString(remove_value_cast(default)))
      [] sql_type.t = "Enum" -> Parsed(LiteralString(remove_value_cast(default)))
      [] sql_type.t = "Array" ->
            CASE sql_type.elem \in {"Int", "Tinyint", "Smallint", "Bigint"} ->
                    IntArrayDefault(default)
              [] sql_type.elem \in {"Real", "Float", "Double", "Numeric"} ->
                    FloatArrayDefault(default)
              [] sql_type.elem \in {"Text", "Varchar", "Tinytext", "Mediumtext"} ->
                    TextArrayDefault(default)
              [] OTHER -> Fatal
      [] OTHER -> Fatal

\* the sequence name of a nextval expression: the text left when the
\* envelope nextval(' .. '::regclass) is trimmed off
SequenceName(ic_default) ==
    trim_end_matches(
        trim_start_matches(ic_default, <<"n", "e", "x", "t", "v", "a", "l", "(", "'">>),
        <<"'", ":", ":", "r", "e", "g", "c", "l", "a", "s", "s", ")">>)

\* DefaultConstraint with "null" recognised in lower case only
DefaultConstraintCaseSensitive(sql_type, default) ==
    LET ic_default == to_lowercase(default)
        Resolved(parsed) == [panic |-> parsed.panic, constraint |-> DefaultValue(parsed.literal)]
    IN  IF default = <<"n", "u", "l", "l">>
        THEN [panic |-> FALSE, constraint |-> DefaultValue(LiteralNull)]
        ELSE IF starts_with(ic_default, <<"n", "e", "x", "t", "v", "a", "l">>)
        THEN [panic |-> FALSE, constraint |-> AutoIncrement(Some(SequenceName(ic_default)))]
        ELSE Resolved(DefaultLiteral(sql_type, default))

\* the constraint of a default expression: `if let Some(ref default) = ..`
DefaultConstraint(sql_type, default) ==
    LET ic_default == to_lowercase(default)
        Resolved(parsed) == [panic |-> parsed.panic, constraint |-> DefaultValue(parsed.literal)]
    IN  IF ic_default = <<"n", "u", "l", "l">>
        THEN [panic |-> FALSE, constraint |-> DefaultValue(LiteralNull)]
        ELSE IF starts_with(ic_default, <<"n", "e", "x", "t", "v", "a", "l">>)
        THEN [panic |-> FALSE, constraint |-> AutoIncrement(Some(SequenceName(ic_default)))]
        ELSE Resolved(DefaultLiteral(sql_type, default))

\* to_column_constraints pushing NotNull after the default's constraint
to_column_constraints_default_first(row) ==
    LET first == IF row.not_null THEN <<NotNull>> ELSE <<>>
        WithDefault(dc) ==
            IF dc.panic THEN [panic |-> TRUE, constraints |-> <<>>]
            ELSE [panic |-> FALSE, constraints |-> <<dc.constraint>> \o first]
        Constrained(tc) ==
            IF tc.panic THEN [panic |-> TRUE, constraints |-> <<>>]
            ELSE IF ~row.default.some THEN [panic |-> FALSE, constraints |-> first]
            ELSE WithDefault(DefaultConstraint(tc.sql_type, row.default.s))
    IN  Constrained(get_sql_type_capacity(row))

\* fn to_column_constraints(&self, table_name, column_name) -> Vec<ColumnConstraint>
to_column_constraints(row) ==
    LET first == IF row.not_null THEN <<NotNull>> ELSE <<>>
        WithDefault(dc) ==
            IF dc.panic THEN [panic |-> TRUE, constraints |-> <<>>]
            ELSE [panic |-> FALSE, constraints |-> first \o <<dc.constraint>>]
        Constrained(tc) ==
            IF tc.panic THEN [panic |-> TRUE, constraints |-> <<>>]
            ELSE IF ~row.default.some THEN [panic |-> FALSE, constraints |-> first]
            ELSE WithDefault(DefaultConstraint(tc.sql_type, row.default.s))
    IN  Constrained(get_sql_type_capacity(row))

\* fn to_column_specification(&self, table_name, column_name) -> ColumnSpecification
to_column_specification(row) ==
    LET Specified(tc, cs) ==
            IF tc.panic \/ cs.panic
            THEN [panic |-> TRUE, spec |-> <<>>]
            ELSE [panic |-> FALSE,
                  spec |-> [sql_type |-> tc.sql_type, capacity |-> tc.capacity,
                            constraints |-> cs.constraints]]
    IN  Specified(get_sql_type_capacity(row), to_column_constraints(row))

\* the schema a catalog query is given: the table's, or "public"
SchemaOf(table_name) == IF table_name.schema = "" THEN "public" ELSE table_name.schema

\* the per-column catalog statement of get_column_specification
ColumnSpecificationSql == <<Lit("SELECT DISTINCT pg_attribute.attnotnull AS not_null, ..")>>

\* the columns asked about
Columns ==
    {[table_name |-> [schema |-> "", name |-> "film"], column_name |-> "rating"],
     [table_name |-> [schema |-> "public", name |-> "actor"], column_name |-> "last_update"]}

\* the answers to the per-column catalog query
ColumnSpecificationReplies ==
    {DbErr(e) : e \in DbErrors}
        \cup {DbOk(<<row>>) : row \in CatalogRows}
        \cup {DbOk(rows) : rows \in SeqsUpTo(FewCatalogRows, MaxRows)}

\* get_column_specification_result taking the first of the rows, however many
get_column_specification_result_first_row(rep) ==
    IF ~rep.ok THEN Err(rep.err)
    ELSE IF Len(rep.rows) = 0 THEN Panic
    ELSE LET Specified(made) == IF made.panic THEN Panic ELSE Ok(<<made.spec>>)
         IN  Specified(to_column_specification(rep.rows[1]))

\* what get_column_specification returns on the collaborator's answer: the
\* error, a failed assert_eq!(column_constraints.len(), 1), or the
\* specification of the one row
get_column_specification_result(rep) ==
    IF ~rep.ok THEN Err(rep.err)
    ELSE IF Len(rep.rows) # 1 THEN Panic
    ELSE LET Specified(made) == IF made.panic THEN Panic ELSE Ok(<<made.spec>>)
         IN  Specified(to_column_specification(rep.rows[1]))

\* fn get_column_specification(db, table_name, column_name)
\*     -> Result<ColumnSpecification, DbError>
get_column_specification(table_name, column_name) ==
    /\ op = "none"
    /\ op' = "get_column_specification"
    /\ args' = [table_name |-> table_name, column_name |-> column_name]
    /\ calls' = <<Call(ColumnSpecificationSql,
                       <<VText(column_name), VText(table_name.name),
                         VText(SchemaOf(table_name))>>)>>
    /\ \E rep \in ColumnSpecificationReplies :
          /\ reply' = rep
          /\ result' = get_column_specification_result(rep)

----------------------------------------------------------------------------
(* Column introspection: get_column_stat and get_columns.                  *)

\* the statistics statement of get_column_stat
ColumnStatSql == <<Lit("SELECT avg_width, n_distinct FROM pg_stats WHERE ..")>>

\* the column-list statement of get_columns
ColumnListSql == <<Lit("SELECT pg_attribute.attnum AS number, .. ORDER BY number")>>

\* the parameters of the two per-column statements
ColumnParams(table_name, column_name) ==
    <<VText(column_name), VText(table_name.name), VText(SchemaOf(table_name))>>

\* Option<ColumnStat>
StatNone == [some |-> FALSE, avg_width |-> 0, n_distinct |-> 0]
StatSome(row) == [some |-> TRUE, avg_width |-> row.avg_width, n_distinct |-> row.n_distinct]

\* the rows of pg_stats
ColumnStatRows ==
    {[avg_width |-> 4, n_distinct |-> 200], [avg_width |-> 7, n_distinct |-> 0 - 1]}

\* the answers to the statistics query
ColumnStatReplies ==
    {DbErr(e) : e \in DbErrors} \cup {DbOk(rows) : rows \in SeqsUpTo(ColumnStatRows, MaxRows)}

\* get_column_stat_result failing when no statistics were collected
get_column_stat_result_requiring_row(rep) ==
    IF ~rep.ok THEN Err(rep.err)
    ELSE IF rep.rows # <<>> THEN Ok(<<StatSome(rep.rows[1])>>)
    ELSE Err(ZeroRecordReturned)

\* what get_column_stat returns on the collaborator's answer
get_column_stat_result(rep) ==
    IF ~rep.ok THEN Err(rep.err)
    ELSE IF rep.rows # <<>> THEN Ok(<<StatSome(rep.rows[1])>>)
    ELSE Ok(<<StatNone>>)

\* fn get_column_stat(db, table_name, column_name)
\*     -> Result<Option<ColumnStat>, DbError>
get_column_stat(table_name, column_name) ==
    /\ op = "none"
    /\ op' = "get_column_stat"
    /\ args' = [table_name |-> table_name, column_name |-> column_name]
    /\ calls' = <<Call(ColumnStatSql, ColumnParams(table_name, column_name))>>
    /\ \E rep \in ColumnStatReplies :
          /\ reply' = rep
          /\ result' = get_column_stat_result(rep)

\* Option<String> of a column's comment
CommentNone == [some |-> FALSE, s |-> ""]
CommentSome(s) == [some |-> TRUE, s |-> s]

\* struct ColumnSimple: the rows of the column-list query
ColumnSimpleRows ==
    {[name |-> "actor_id", comment |-> CommentNone],
     [name |-> "first_name", comment |-> CommentSome("given name")],
     [name |-> "last_update", comment |-> CommentNone]}

\* the column lists of a table: the catalog names no column twice
ColumnLists ==
    {cs \in SeqsUpTo(ColumnSimpleRows, MaxColumns) :
        \A i, j \in 1..Len(cs) : cs[i].name = cs[j].name => i = j}

\* the tables asked about
Tables == {c.table_name : c \in Columns}

\* the answers get_columns is given to its per-column queries; the two
\* queries fail with different errors, which tells whose error is returned
FewSpecificationReplies ==
    {DbErr("PlatformError(sql)"), DbOk(<<>>)}
        \cup {DbOk(<<row>>) : row \in FewCatalogRows}
FewStatReplies ==
    {DbErr("PlatformError(connection)"),
     DbOk(<<>>),
     DbOk(<<[avg_width |-> 4, n_distinct |-> 200]>>),
     DbOk(<<[avg_width |-> 7, n_distinct |-> 0 - 1],
            [avg_width |-> 4, n_distinct |-> 200]>>)}

\* fn to_column(&self, table_name, specification, stat) -> ColumnDef
to_column(column_simple, table_name, specification, stat) ==
    [table |-> table_name, name |-> column_simple.name, comment |-> column_simple.comment,
     specification |-> specification, stat |-> stat]

\* columns.push(column) putting the column in front
PushColumnFront(columns, column) == <<column>> \o columns

\* columns.push(column)
PushColumn(columns, column) == Append(columns, column)

\* the loop of get_columns over the rows of the column list, from row i on:
\* the specification query, then the statistics query, whose error `?`
\* returns before the specification's result is looked at; specifications
\* and column_stats hold what the two functions give for each row's answers
RECURSIVE ColumnsLoop(_, _, _, _, _, _, _)
ColumnsLoop(table_name, columns_simple, specifications, column_stats, i, made, columns) ==
    IF i > Len(columns_simple) THEN [calls |-> made, result |-> Ok(columns)]
    ELSE LET column_simple == columns_simple[i]
             spec_call == Call(ColumnSpecificationSql,
                               ColumnParams(table_name, column_simple.name))
             stat_call == Call(ColumnStatSql, ColumnParams(table_name, column_simple.name))
             specification == specifications[i]
             column_stat == column_stats[i]
         IN  IF specification.kind = "Panic"
             THEN [calls |-> Append(made, spec_call), result |-> Panic]
             ELSE IF column_stat.kind = "Err"
             THEN [calls |-> made \o <<spec_call, stat_call>>, result |-> Err(column_stat.err)]
             ELSE IF specification.kind = "Err"
             THEN [calls |-> made \o <<spec_call, stat_call>>,
                   result |-> Err(specification.err)]
             ELSE ColumnsLoop(table_name, columns_simple, specifications, column_stats, i + 1,
                              made \o <<spec_call, stat_call>>,
                              PushColumn(columns,
                                         to_column(column_simple, table_name,
                                                   specification.recs[1],
                                                   column_stat.recs[1])))

\* the calls and the result of get_columns on the answer to the column-list
\* query and on what the two per-column functions give
get_columns_run(table_name, list, specifications, column_stats) ==
    LET list_call == Call(ColumnListSql,
                          <<VText(table_name.name), VText(SchemaOf(table_name)),
                            VText(complete_name(table_name))>>)
    IN  IF ~list.ok THEN [calls |-> <<list_call>>, result |-> Err(list.err)]
        ELSE ColumnsLoop(table_name, list.rows, specifications, column_stats,
                         1, <<list_call>>, <<>>)

\* how many of the calls made were of a statement
CallsOf(made, sql) == Cardinality({k \in 1..Len(made) : made[k].sql = sql})

\* fn get_columns(db, table_name) -> Result<Vec<ColumnDef>, DbError>
\* reply keeps the answer to the column-list query and, in specs and stats,
\* the answers to the per-column queries that were made
get_columns(table_name) ==
    /\ op = "none"
    /\ op' = "get_columns"
    /\ args' = [table_name |-> table_name]
    /\ \E list \in {DbErr(e) : e \in DbErrors} \cup {DbOk(cs) : cs \in ColumnLists} :
          \E spec_replies \in [1..Len(list.rows) -> FewSpecificationReplies],
             stat_replies \in [1..Len(list.rows) -> FewStatReplies] :
             \E specifications \in {[i \in 1..Len(list.rows) |->
                                       get_column_specification_result(spec_replies[i])]},
                column_stats \in {[i \in 1..Len(list.rows) |->
                                     get_column_stat_result(stat_replies[i])]} :
                \E run \in {get_columns_run(table_name, list, specifications, column_stats)} :
                   /\ calls' = run.calls
                   /\ reply' = [ok |-> list.ok, rows |-> list.rows, err |-> list.err,
                                specs |-> SubSeq(spec_replies, 1,
                                                 CallsOf(run.calls, ColumnSpecificationSql)),
                                stats |-> SubSeq(stat_replies, 1,
                                                 CallsOf(run.calls, ColumnStatSql))]
                   /\ result' = run.result

\* a record handed to the generated to_dao and the Dao it gives handed to the
\* generated from_dao; the Dao is kept as the one row of the reply
to_dao_then_from_dao(T, r) ==
    /\ op = "none"
    /\ op' = "to_dao_then_from_dao"
    /\ args' = [T |-> T, r |-> r]
    /\ calls' = <<>>
    /\ reply' = DbOk(<<to_dao(T, r)>>)
    /\ result' = LET back == from_dao(T, to_dao(T, r))
                 IN  IF back.panic THEN Panic ELSE Ok(<<back.rec>>)

----------------------------------------------------------------------------
(* The specification.                                                      *)

Init ==
    /\ op = "none"
    /\ args = <<>>
    /\ calls = <<>>
    /\ reply = NoReply
    /\ result = NoResult

\* the call is over: the caller has the result and the manager, which every
\* operation takes by shared reference, is as it was before the call
Return ==
    /\ op # "none"
    /\ op' = "none"
    /\ args' = <<>>
    /\ calls' = <<>>
    /\ reply' = NoReply
    /\ result' = NoResult

Next ==
    \/ Return
    \/ \E T \in RecordTypes : get_all(T)
    \/ \E T \in RecordTypes, R \in RecordTypes :
          \E entities \in SeqsUpTo(RecordsOf(T), MaxEntities) : insert(T, R, entities)
    \/ \E R \in RecordTypes, sql \in Statements, params \in ParamLists :
          execute_sql_with_return(R, sql, params)
    \/ \E R \in RecordTypes, sql \in Statements, params \in ParamLists :
          execute_sql_with_one_return(R, sql, params)
    \/ \E T \in RecordTypes : \E r \in RecordsOf(T) : to_dao_then_from_dao(T, r)
    \/ \E c \in Columns : get_column_specification(c.table_name, c.column_name)
    \/ \E c \in Columns : get_column_stat(c.table_name, c.column_name)
    \/ \E table_name \in Tables : get_columns(table_name)

Spec == Init /\ [][Next]_vars

----------------------------------------------------------------------------
(* The claims.                                                             *)

\* the record type the rows of the call in flight are mapped to
MappedType == IF op = "get_all" THEN args.T ELSE args.R

\* whether a row has an entry, of a convertible value, for every field of T
Mappable(T, row) ==
    \A f \in FieldNames(T) : f \in DOMAIN row /\ from_value(FieldType(T, f), row[f]).ok

\* C1: when the execution under execute_sql_with_one_return succeeds with k
\* records (the collaborator answers k rows, each of which maps to R), the
\* call returns Ok of the one mapped row for k = 1, the ZeroRecordReturned
\* data error for k = 0 and the MoreThan1RecordReturned data error for every
\* k >= 2; the two errors differ from each other and from every error of the
\* collaborator.
C1_OneReturnCardinality ==
    (/\ op = "execute_sql_with_one_return"
     /\ reply.ok
     /\ \A i \in 1..Len(reply.rows) : Mappable(args.R, reply.rows[i]))
    => LET k == Len(reply.rows)
       IN  /\ k = 0 => result = Err(ZeroRecordReturned)
           /\ k = 1 => /\ result.kind = "Ok"
                       /\ Len(result.recs) = 1
                       /\ \A f \in FieldNames(args.R) :
                             result.recs[1][f]
                                 = from_value(FieldType(args.R, f), reply.rows[1][f]).rv
           /\ k >= 2 => result = Err(MoreThan1RecordReturned)
           /\ ZeroRecordReturned # MoreThan1RecordReturned
           /\ {ZeroRecordReturned, MoreThan1RecordReturned} \cap DbErrors = {}

C1_Witness ==
    /\ op = "execute_sql_with_one_return"
    /\ reply.ok
    /\ Len(reply.rows) >= 2
    /\ result = Err(MoreThan1RecordReturned)

\* C2: the VALUES clause of insert with N entities of a type with C columns
\* has exactly N placeholder groups of exactly C placeholders, the one at
\* row y, column x (0-based) is numbered y*C + x + 1, and the placeholder
\* numbers of the whole statement are exactly 1..N*C, none used twice.
C2_PlaceholderNumbering ==
    op = "insert" =>
        LET sql == calls[1].sql
            N == Len(args.entities)
            C == Len(args.T.columns)
            groups == ValueGroupsOf(sql)
            all == Numbers(sql)
        IN  /\ Len(groups) = N
            /\ \A y \in 0..(N - 1) :
                  /\ Len(groups[y + 1]) = C
                  /\ \A x \in 0..(C - 1) : groups[y + 1][x + 1] = y * C + x + 1
            /\ Range(all) = 1..(N * C)
            /\ Len(all) = N * C

C2_Witness ==
    /\ op = "insert"
    /\ Len(args.entities) = 2
    /\ Len(args.T.columns) = 2
    /\ ValueGroupsOf(calls[1].sql) = <<<<1, 2>>, <<3, 4>>>>

\* the value insert is to bind for column `name` of an entity r of type T
ColumnValue(T, r, name) ==
    IF name \in FieldNames(T) THEN to_value(FieldType(T, name), r[name]) ELSE Nil

\* C3: the parameter list of insert has length N*C and its element at
\* 0-based index y*C + x is the value of entity y under the name of T's x-th
\* column, or Nil when the entity's Dao has no entry under that name; so the
\* parameter bound to placeholder $k is the value of the row and column that
\* $k stands for.
C3_ParameterAlignment ==
    op = "insert" =>
        LET params == calls[1].params
            groups == ValueGroupsOf(calls[1].sql)
            N == Len(args.entities)
            C == Len(args.T.columns)
        IN  /\ Len(params) = N * C
            /\ \A y \in 0..(N - 1) : \A x \in 0..(C - 1) :
                  /\ params[y * C + x + 1]
                        = ColumnValue(args.T, args.entities[y + 1], args.T.columns[x + 1])
                  /\ params[groups[y + 1][x + 1]]
                        = ColumnValue(args.T, args.entities[y + 1], args.T.columns[x + 1])

C3_Witness ==
    /\ op = "insert"
    /\ args.T = Partial
    /\ Len(args.entities) = 2
    /\ calls[1].params[2] = Nil
    /\ calls[1].params[3] = VText("HANKS")

\* C4: a successful insert of N entities returns N records, the i-th of them
\* the one the database produced for the i-th entity: it is the i-th row of
\* the answer mapped by from_dao, a field that was inserted holds what the
\* i-th entity held, and a field the server generated holds the serial of
\* the i-th row.
C4_InsertOrder ==
    (op = "insert" /\ result.kind = "Ok")
    => LET N == Len(args.entities)
           T == args.T
           R == args.R
       IN  /\ Len(result.recs) = N
           /\ \A i \in 1..N :
                 /\ Mappable(R, reply.rows[i])
                 /\ \A f \in FieldNames(R) :
                       /\ result.recs[i][f]
                             = from_value(FieldType(R, f), reply.rows[i][f]).rv
                       /\ f \in Range(T.columns)
                             => to_value(FieldType(R, f), result.recs[i][f])
                                    = ColumnValue(T, args.entities[i], f)
                       /\ f \notin Range(T.columns)
                             => result.recs[i][f] = RustInt(i)

C4_Witness ==
    /\ op = "insert"
    /\ result.kind = "Ok"
    /\ args.T = Actor
    /\ args.R = RetrieveActor
    /\ Len(result.recs) = 2
    /\ result.recs[1]["first_name"] = RustString("TOM")
    /\ result.recs[2]["first_name"] = RustString("HANKS")
    /\ result.recs[2]["actor_id"] = RustInt(2)

\* C5: when the collaborator's execution call answers an error, get_all,
\* insert, execute_sql_with_return and execute_sql_with_one_return return
\* that same error: not a cardinality error, not an Ok, and no record.
C5_ErrorsPropagate ==
    (/\ op \in {"get_all", "insert", "execute_sql_with_return",
                "execute_sql_with_one_return"}
     /\ ~reply.ok)
    => /\ result.kind = "Err"
       /\ result.err = reply.err
       /\ result.err \in DbErrors
       /\ result.err \notin {ZeroRecordReturned, MoreThan1RecordReturned}
       /\ result.recs = <<>>

C5_Witness ==
    /\ op = "execute_sql_with_one_return"
    /\ ~reply.ok
    /\ result = Err("PlatformError(connection)")

\* C6: get_all executes exactly one statement, SELECT <T's column names
\* joined by ", " in declared order> FROM <T's complete table name>, with an
\* empty parameter list, and on success returns one record per returned row
\* in row order, record i being from_dao of row i.
C6_GetAll ==
    op = "get_all" =>
        LET T == args.T
            C == Len(T.columns)
            sql == calls[1].sql
            L == Len(sql)
        IN  /\ Len(calls) = 1
            /\ calls[1].params = <<>>
            /\ L = 3 + (IF C = 0 THEN 0 ELSE 2 * C - 1)
            /\ sql[1] = Lit("SELECT ")
            /\ \A x \in 1..C : sql[2 * x] = Id(T.columns[x])
            /\ \A x \in 1..(C - 1) : sql[2 * x + 1] = Lit(", ")
            /\ sql[L - 1] = Lit(" FROM ")
            /\ sql[L] = Id(IF T.table.schema = "" THEN T.table.name
                           ELSE T.table.schema \o "." \o T.table.name)
            /\ result.kind = "Ok" =>
                  /\ reply.ok
                  /\ Len(result.recs) = Len(reply.rows)
                  /\ \A i \in 1..Len(reply.rows) : \A f \in FieldNames(T) :
                        result.recs[i][f]
                            = from_value(FieldType(T, f), reply.rows[i][f]).rv

C6_Witness ==
    /\ op = "get_all"
    /\ args.T = Sample
    /\ result.kind = "Ok"
    /\ Len(result.recs) = 2
    /\ result.recs[1] # result.recs[2]
    /\ calls[1].sql[Len(calls[1].sql)] = Id("public.sample")

\* C7: insert makes exactly one execution call for the whole batch, whatever
\* the number N of entities, N = 0 included: one statement with one
\* parameter list for all rows, whose column list is T's columns and whose
\* RETURNING list is R's columns.
C7_InsertOneCall ==
    op = "insert" =>
        /\ Len(calls) = 1
        /\ InsertColumnsOf(calls[1].sql) = args.T.columns
        /\ ReturningOf(calls[1].sql) = args.R.columns
        /\ Len(ValueGroupsOf(calls[1].sql)) = Len(args.entities)
        /\ Len(calls[1].params) = Len(args.entities) * Len(args.T.columns)

C7_Witness ==
    /\ op = "insert"
    /\ args.entities = <<>>
    /\ args.T = Actor
    /\ args.R = RetrieveActor
    /\ Len(calls) = 1

\* C8: for every record r, to_dao(r) holds exactly one entry per field, keyed
\* by the field's name, and from_dao(to_dao(r)) is r, also when an Option
\* field holds None.
C8_RoundTrip ==
    op = "to_dao_then_from_dao" =>
        /\ DOMAIN reply.rows[1] = FieldNames(args.T)
        /\ \A f \in FieldNames(args.T) :
              reply.rows[1][f] = to_value(FieldType(args.T, f), args.r[f])
        /\ result = Ok(<<args.r>>)

C8_Witness ==
    /\ op = "to_dao_then_from_dao"
    /\ args.T = Sample
    /\ args.r["vnil"] = RustNone
    /\ result = Ok(<<args.r>>)

\* C9: from_dao of a Dao that lacks an entry for a declared field aborts
\* instead of returning a record; get_all, insert and execute_sql_with_return
\* (and execute_sql_with_one_return through it) never return a record built
\* from a row that misses one of the record's fields.
C9_MissingFieldPanics ==
    (/\ op \in {"get_all", "insert", "execute_sql_with_return",
                "execute_sql_with_one_return"}
     /\ reply.ok
     /\ \E i \in 1..Len(reply.rows) : ~(FieldNames(MappedType) \subseteq DOMAIN reply.rows[i]))
    => result = Panic

C9_Witness ==
    /\ op = "insert"
    /\ args.R = Partial
    /\ reply.ok
    /\ Len(reply.rows) = 2
    /\ "note" \notin DOMAIN reply.rows[1]
    /\ result = Panic

\* the native type names get_sql_type_capacity resolves without a flag
ResolvedNatively(data_type) ==
    data_type \in DataTypes \ {"mpaa_rating", "mpaa_rating[]", "tsrange"}

\* C10: a column whose default expression is the text "null" in any letter
\* case has the constraint DefaultValue(Literal::Null), whatever SqlType the
\* column resolves to, the types for which any other default is fatal (Date,
\* Json, blobs, arrays of an unsupported element type) included: the
\* specification is returned and the default is its last constraint, after
\* NotNull when the column is marked so.
C10_NullDefault ==
    (/\ op = "get_column_specification"
     /\ reply.ok
     /\ Len(reply.rows) = 1
     /\ reply.rows[1].default \in {Some(D_null), Some(D_NULL), Some(D_Null)}
     /\ \/ ResolvedNatively(reply.rows[1].data_type)
        \/ reply.rows[1].is_enum
        \/ reply.rows[1].is_array_enum /\ reply.rows[1].array_enum_choices # <<>>)
    => /\ result.kind = "Ok"
       /\ result.recs[1].constraints
             = (IF reply.rows[1].not_null THEN <<NotNull>> ELSE <<>>)
                   \o <<DefaultValue(LiteralNull)>>

C10_Witness ==
    /\ op = "get_column_specification"
    /\ reply.ok
    /\ Len(reply.rows) = 1
    /\ reply.rows[1].data_type = "jsonb"
    /\ reply.rows[1].default = Some(D_NULL)
    /\ result.kind = "Ok"
    /\ result.recs[1].sql_type = Type("Json")
    /\ result.recs[1].constraints = <<NotNull, DefaultValue(LiteralNull)>>

\* the text that opens and the text that closes a nextval expression
NextvalOpen == <<"n", "e", "x", "t", "v", "a", "l", "(", "'">>
NextvalClose == <<"'", ":", ":", "r", "e", "g", "c", "l", "a", "s", "s", ")">>

\* whether a default expression reads nextval('<seq>'::regclass), <seq> being
\* any text without a quote
HasEnvelope(default) ==
    /\ Len(default) > Len(NextvalOpen) + Len(NextvalClose)
    /\ starts_with(default, NextvalOpen)
    /\ ends_with(default, NextvalClose)
    /\ \A i \in (Len(NextvalOpen) + 1)..(Len(default) - Len(NextvalClose)) : default[i] # "'"

\* the <seq> of such a default expression, as it is written there
EnvelopeName(default) ==
    SubSeq(default, Len(NextvalOpen) + 1, Len(default) - Len(NextvalClose))

\* whether the native type and flags of a catalog row resolve to a SqlType
Resolves(row) == ~get_sql_type_capacity(row).panic

\* C11: a column whose default expression reads nextval('<seq>'::regclass)
\* has, whatever SqlType it resolves to, the constraint
\* AutoIncrement(Some(<seq>)) with <seq> exactly as written inside the
\* envelope; the specification is returned (the type's default parser is
\* not consulted, so nothing is fatal) and no DefaultValue is in the list.
C11_NextvalSequenceName ==
    (/\ op = "get_column_specification"
     /\ reply.ok
     /\ Len(reply.rows) = 1
     /\ reply.rows[1].default.some
     /\ HasEnvelope(reply.rows[1].default.s)
     /\ Resolves(reply.rows[1]))
    => /\ result.kind = "Ok"
       /\ result.recs[1].constraints
             = (IF reply.rows[1].not_null THEN <<NotNull>> ELSE <<>>)
                   \o <<AutoIncrement(Some(EnvelopeName(reply.rows[1].default.s)))>>

\* C12: a catalog row flagged is_enum resolves to Enum(native type name,
\* enum_choices), the labels in the order of the row, with no capacity,
\* also when the native type table knows the name; a row flagged
\* is_array_enum and not is_enum, with labels in array_enum_choices,
\* resolves to Array(Enum(native type name, array_enum_choices)) with no
\* capacity.  A flagged row without a default always has its specification
\* returned.
C12_EnumResolution ==
    (/\ op = "get_column_specification"
     /\ reply.ok
     /\ Len(reply.rows) = 1)
    => LET row == reply.rows[1]
           flagged == row.is_enum \/ (row.is_array_enum /\ row.array_enum_choices # <<>>)
       IN  /\ (flagged /\ ~row.default.some) => result.kind = "Ok"
           /\ (row.is_enum /\ result.kind = "Ok")
                 => /\ result.recs[1].sql_type.t = "Enum"
                    /\ result.recs[1].sql_type.name = row.data_type
                    /\ result.recs[1].sql_type.choices = row.enum_choices
                    /\ result.recs[1].capacity = NoCapacity
           /\ (~row.is_enum /\ row.is_array_enum /\ row.array_enum_choices # <<>>
                          /\ result.kind = "Ok")
                 => /\ result.recs[1].sql_type.t = "Array"
                    /\ result.recs[1].sql_type.elem = "Enum"
                    /\ result.recs[1].sql_type.name = row.data_type
                    /\ result.recs[1].sql_type.choices = row.array_enum_choices
                    /\ result.recs[1].capacity = NoCapacity

C12_Witness ==
    /\ op = "get_column_specification"
    /\ reply.ok
    /\ Len(reply.rows) = 1
    /\ reply.rows[1].is_enum
    /\ reply.rows[1].data_type = "year"
    /\ result.kind = "Ok"
    /\ result.recs[1].sql_type = EnumType("year", <<"2020", "2019">>)
    /\ result.recs[1].capacity = NoCapacity

\* the defaults the code answers before it looks at the column's type
IsNullText(default) == to_lowercase(default) = <<"n", "u", "l", "l">>
IsNextvalText(default) == starts_with(to_lowercase(default), <<"n", "e", "x", "t", "v", "a", "l">>)

\* where the closing quote of a default <quoted text>::<type> is: the quote
\* that the cast annotation, a type name without quote or colon, follows;
\* 0 when the default is not of that form
ClosingQuote(default) ==
    LET at == {k \in 2..(Len(default) - 3) :
                  /\ default[1] = "'" /\ default[k] = "'"
                  /\ default[k + 1] = ":" /\ default[k + 2] = ":"
                  /\ \A i \in (k + 3)..Len(default) : default[i] \notin {"'", ":"}}
    IN  IF at = {} THEN 0 ELSE CHOOSE k \in at : TRUE

\* the <quoted text> of such a default, quotes included
QuotedText(default) == SubSeq(default, 1, ClosingQuote(default))

TextFamily == {"Varchar", "Char", "Tinytext", "Mediumtext", "Text"}

\* C13: for a column of the character/text family or of an Enum type, a
\* default <quoted text>::<type> gives DefaultValue(Literal::String(<quoted
\* text>)), quotes included and whatever the quoted text holds, and a
\* default without cast annotation gives the String of the whole default.
C13_TextDefaultCast ==
    (/\ op = "get_column_specification"
     /\ reply.ok
     /\ Len(reply.rows) = 1
     /\ reply.rows[1].default.some
     /\ Resolves(reply.rows[1])
     /\ get_sql_type_capacity(reply.rows[1]).sql_type.t \in TextFamily \cup {"Enum"}
     /\ ~IsNullText(reply.rows[1].default.s)
     /\ ~IsNextvalText(reply.rows[1].default.s))
    => LET row == reply.rows[1]
           d == row.default.s
           first == IF row.not_null THEN <<NotNull>> ELSE <<>>
       IN  /\ result.kind = "Ok"
           /\ ClosingQuote(d) # 0
                 => result.recs[1].constraints
                       = first \o <<DefaultValue(LiteralString(QuotedText(d)))>>
           /\ ~contains(d, <<":", ":">>)
                 => result.recs[1].constraints = first \o <<DefaultValue(LiteralString(d))>>

\* whether a default reads '{<body>}'::<type>[], <body> without brace or quote
IsArrayForm(default) ==
    LET k == FindFirst(default, <<"}", "'", ":", ":">>)
    IN  /\ starts_with(default, <<"'", "{">>)
        /\ ends_with(default, <<"[", "]">>)
        /\ k >= 3
        /\ \A i \in 3..(k - 1) : default[i] \notin {"{", "}", "'"}
        /\ \A i \in (k + 4)..Len(default) : default[i] \notin {"'", ":"}

\* the elements e1, .., en of such a default, in the order written
ArrayElements(default) ==
    LET body == SubSeq(default, 3, FindFirst(default, <<"}", "'", ":", ":">>) - 1)
    IN  IF body = <<>> THEN <<>> ELSE split(body, <<",">>)

IntFamily == {"Int", "Tinyint", "Smallint", "Bigint"}

\* C14: for a column that resolves to an array of an integer type, a default
\* '{e1,..,en}'::<type>[] gives DefaultValue(Literal::ArrayInt([e1,..,en])),
\* the elements in the order written, empty braces give ArrayInt([]), and
\* when an element is not a signed 64-bit integer the call is fatal: no
\* specification and no error is returned.
C14_IntArrayDefault ==
    (/\ op = "get_column_specification"
     /\ reply.ok
     /\ Len(reply.rows) = 1
     /\ reply.rows[1].default.some
     /\ Resolves(reply.rows[1])
     /\ get_sql_type_capacity(reply.rows[1]).sql_type.t = "Array"
     /\ get_sql_type_capacity(reply.rows[1]).sql_type.elem \in IntFamily
     /\ IsArrayForm(reply.rows[1].default.s))
    => LET row == reply.rows[1]
           d == row.default.s
           es == ArrayElements(d)
           first == IF row.not_null THEN <<NotNull>> ELSE <<>>
       IN  /\ (\A i \in 1..Len(es) : parse_i64(es[i]).ok)
                 => /\ result.kind = "Ok"
                    /\ result.recs[1].constraints
                          = first \o <<DefaultValue(
                                ArrayInt([i \in 1..Len(es) |-> parse_i64(es[i]).n]))>>
           /\ (\E i \in 1..Len(es) : ~parse_i64(es[i]).ok) => result = Panic
           /\ d = D_int_array
                 => result.recs[1].constraints = first \o <<DefaultValue(ArrayInt(<<2, 1, 2>>))>>
           /\ d = D_signed_int_array
                 => result.recs[1].constraints = first \o <<DefaultValue(ArrayInt(<<0 - 3, 10>>))>>
           /\ d = D_empty_array
                 => result.recs[1].constraints = first \o <<DefaultValue(ArrayInt(<<>>))>>
           /\ d \in {D_bad_int_array, D_big_int_array} => result = Panic

C14_Witness ==
    /\ op = "get_column_specification"
    /\ reply.ok
    /\ Len(reply.rows) = 1
    /\ reply.rows[1].data_type = "integer[]"
    /\ reply.rows[1].default = Some(D_int_array)
    /\ result.kind = "Ok"
    /\ result.recs[1].sql_type = ArrayOf("Int")
    /\ result.recs[1].constraints[Len(result.recs[1].constraints)]
          = DefaultValue(ArrayInt(<<2, 1, 2>>))

\* C15: for a Timestamp or TimestampTz column the default now() or
\* timezone('utc'::text, now()) gives DefaultValue(Literal::CurrentTimestamp)
\* and every other default that is neither "null" nor a nextval expression
\* gives DefaultValue(Literal::Null); the specification is always returned.
C15_TimestampDefault ==
    (/\ op = "get_column_specification"
     /\ reply.ok
     /\ Len(reply.rows) = 1
     /\ reply.rows[1].default.some
     /\ Resolves(reply.rows[1])
     /\ get_sql_type_capacity(reply.rows[1]).sql_type.t \in {"Timestamp", "TimestampTz"}
     /\ ~IsNullText(reply.rows[1].default.s)
     /\ ~IsNextvalText(reply.rows[1].default.s))
    => LET row == reply.rows[1]
           first == IF row.not_null THEN <<NotNull>> ELSE <<>>
       IN  /\ result.kind = "Ok"
           /\ result.recs[1].constraints
                 = first \o <<DefaultValue(IF row.default.s \in {D_now, D_timezone_now}
                                           THEN CurrentTimestamp ELSE LiteralNull)>>

C15_Witness ==
    /\ op = "get_column_specification"
    /\ reply.ok
    /\ Len(reply.rows) = 1
    /\ reply.rows[1].data_type = "timestamp with time zone"
    /\ reply.rows[1].default = Some(D_uuid_generate_v4)
    /\ result.kind = "Ok"
    /\ result.recs[1].sql_type = Type("TimestampTz")
    /\ result.recs[1].constraints = <<NotNull, DefaultValue(LiteralNull)>>

\* C17: when the per-column catalog query of get_column_specification
\* succeeds with no row or with two or more rows, the call fails fatally: it
\* returns neither a specification nor an error.  When it succeeds with one
\* row the call never returns an error, and a specification it returns is
\* the one built from that row: the row's resolved type and capacity and the
\* row's constraints; a row without default whose type resolves always has
\* its specification returned.
C17_ExactlyOneRow ==
    (op = "get_column_specification" /\ reply.ok)
    => /\ Len(reply.rows) # 1 => result = Panic
       /\ Len(reply.rows) = 1
             => LET row == reply.rows[1]
                IN  /\ result.kind \in {"Ok", "Panic"}
                    /\ (Resolves(row) /\ ~row.default.some) => result.kind = "Ok"
                    /\ result.kind = "Ok"
                          => /\ Len(result.recs) = 1
                             /\ result.recs[1].sql_type = get_sql_type_capacity(row).sql_type
                             /\ result.recs[1].capacity = get_sql_type_capacity(row).capacity
                             /\ result.recs[1].constraints
                                   = to_column_constraints(row).constraints

C17_Witness ==
    /\ op = "get_column_specification"
    /\ reply.ok
    /\ Len(reply.rows) = 2
    /\ reply.rows[1] # reply.rows[2]
    /\ result = Panic

\* whether every per-column query that get_columns made was answered well:
\* one catalog row for the specification, any number of rows of statistics
AllAnsweredWell ==
    /\ Len(reply.specs) = Len(reply.rows)
    /\ Len(reply.stats) = Len(reply.rows)
    /\ \A i \in 1..Len(reply.rows) :
          /\ reply.specs[i].ok /\ Len(reply.specs[i].rows) = 1
          /\ reply.stats[i].ok

\* C18: get_column_stat returns Ok(None) when the statistics query succeeds
\* with no row and Ok(Some(the first row)) when it succeeds with one or more
\* rows; in get_columns a column without statistics is not a failure: when
\* all queries are answered well the list is returned, and each column has
\* stat = None exactly when its statistics query gave no row, and the first
\* row of statistics otherwise.
C18_ColumnStat ==
    /\ (op = "get_column_stat" /\ reply.ok)
          => result = Ok(<<IF reply.rows = <<>> THEN StatNone ELSE StatSome(reply.rows[1])>>)
    /\ (op = "get_columns" /\ reply.ok)
          => /\ AllAnsweredWell => result.kind = "Ok"
             /\ result.kind = "Ok"
                   => /\ Len(result.recs) = Len(reply.stats)
                      /\ \A i \in 1..Len(result.recs) :
                            result.recs[i].stat
                                = (IF reply.stats[i].rows = <<>> THEN StatNone
                                   ELSE StatSome(reply.stats[i].rows[1]))

C18_Witness ==
    /\ op = "get_columns"
    /\ reply.ok
    /\ result.kind = "Ok"
    /\ Len(result.recs) = 2
    /\ reply.stats[1].rows = <<>>
    /\ result.recs[1].stat = StatNone
    /\ Len(reply.stats[2].rows) = 2
    /\ result.recs[2].stat = [some |-> TRUE, avg_width |-> 7, n_distinct |-> 0 - 1]

\* C19: when every catalog query of get_columns is answered well, the call
\* returns one ColumnDef per row of the column list, in the order of the
\* rows, each with the row's name and comment, the table name given, and
\* the specification and the statistics that were queried for that name;
\* the call made one column-list query and then, per column in order, one
\* specification query followed by one statistics query, each with the
\* column's name, the table's name and the schema as parameters.
C19_GetColumns ==
    (op = "get_columns" /\ reply.ok /\ AllAnsweredWell)
    => LET n == Len(reply.rows)
           table_name == args.table_name
           schema == IF table_name.schema = "" THEN "public" ELSE table_name.schema
       IN  /\ result.kind = "Ok"
           /\ Len(result.recs) = n
           /\ \A i \in 1..n :
                 /\ result.recs[i].name = reply.rows[i].name
                 /\ result.recs[i].comment = reply.rows[i].comment
                 /\ result.recs[i].table = table_name
                 /\ result.recs[i].specification
                       = get_column_specification_result(reply.specs[i]).recs[1]
                 /\ result.recs[i].stat
                       = get_column_stat_result(reply.stats[i]).recs[1]
           /\ Len(calls) = 1 + 2 * n
           /\ calls[1].sql = ColumnListSql
           /\ calls[1].params[1] = VText(table_name.name)
           /\ calls[1].params[2] = VText(schema)
           /\ \A i \in 1..n :
                 /\ calls[2 * i].sql = ColumnSpecificationSql
                 /\ calls[2 * i + 1].sql = ColumnStatSql
                 /\ calls[2 * i].params
                       = <<VText(reply.rows[i].name), VText(table_name.name), VText(schema)>>
                 /\ calls[2 * i + 1].params = calls[2 * i].params

C19_Witness ==
    /\ op = "get_columns"
    /\ reply.ok
    /\ AllAnsweredWell
    /\ result.kind = "Ok"
    /\ Len(result.recs) = 2
    /\ result.recs[1].name = "last_update"
    /\ result.recs[2].name = "actor_id"
    /\ result.recs[1].specification # result.recs[2].specification
    /\ Len(calls) = 5

FloatFamily == {"Float", "Double", "Real", "Numeric"}

\* how often a character is in a text
Count(s, c) == Cardinality({i \in 1..Len(s) : s[i] = c})

\* a default without its trailing cast annotation: without the last "::"
\* and the type name after it, a text without quote or colon whose
\* parentheses, if any, are paired
TrailingCastFree(default) ==
    LET at == {k \in 1..(Len(default) - 2) :
                  /\ default[k] = ":" /\ default[k + 1] = ":"
                  /\ \A i \in (k + 2)..Len(default) : default[i] \notin {"'", ":"}
                  /\ Count(SubSeq(default, k + 2, Len(default)), "(")
                        = Count(SubSeq(default, k + 2, Len(default)), ")")}
    IN  IF at = {} THEN default
        ELSE SubSeq(default, 1, (CHOOSE k \in at : \A j \in at : j <= k) - 1)

\* a default without what follows its first "::"
FirstCastFree(default) ==
    LET at == {k \in 1..(Len(default) - 1) : default[k] = ":" /\ default[k + 1] = ":"}
    IN  IF at = {} THEN default
        ELSE SubSeq(default, 1, (CHOOSE k \in at : \A j \in at : k <= j) - 1)

\* a default without the single quotes around it
Unquoted(text) ==
    LET inner == {i \in 1..Len(text) : text[i] # "'"}
    IN  IF inner = {} THEN <<>>
        ELSE SubSeq(text, CHOOSE i \in inner : \A j \in inner : i <= j,
                          CHOOSE i \in inner : \A j \in inner : j <= i)

\* the result of get_column_specification for a catalog row whose default
\* resolves to a literal, or is fatal
ResultOfLiteral(row, ok, literal) ==
    IF ok THEN /\ result.kind = "Ok"
               /\ result.recs[1].constraints
                     = (IF row.not_null THEN <<NotNull>> ELSE <<>>) \o <<DefaultValue(literal)>>
    ELSE result = Panic

\* whether the call in flight resolved the default of a column of one of
\* these types, a default that is neither "null" nor a nextval expression
ResolvesDefaultOf(types) ==
    /\ op = "get_column_specification"
    /\ reply.ok
    /\ Len(reply.rows) = 1
    /\ reply.rows[1].default.some
    /\ Resolves(reply.rows[1])
    /\ get_sql_type_capacity(reply.rows[1]).sql_type.t \in types
    /\ ~IsNullText(reply.rows[1].default.s)
    /\ ~IsNextvalText(reply.rows[1].default.s)

C21_FloatArrayDefault ==
    (/\ op = "get_column_specification"
     /\ reply.ok
     /\ Len(reply.rows) = 1
     /\ reply.rows[1].default.some
     /\ Resolves(reply.rows[1])
     /\ get_sql_type_capacity(reply.rows[1]).sql_type.t = "Array"
     /\ get_sql_type_capacity(reply.rows[1]).sql_type.elem \in FloatFamily
     /\ IsArrayForm(reply.rows[1].default.s))
    => LET row == reply.rows[1]
           d == row.default.s
           es == ArrayElements(d)
           first == IF row.not_null THEN <<NotNull>> ELSE <<>>
       IN  /\ (\A i \in 1..Len(es) : parse_f64(es[i]).ok)
                 => /\ result.kind = "Ok"
                    /\ result.recs[1].constraints
                          = first \o <<DefaultValue(
                                ArrayFloat([i \in 1..Len(es) |-> parse_f64(es[i]).d]))>>
           /\ (\E i \in 1..Len(es) : ~parse_f64(es[i]).ok) => result = Panic
           /\ d = D_float_array
                 => result.recs[1].constraints
                       = first \o <<DefaultValue(ArrayFloat(
                             <<[neg |-> FALSE, digits |-> <<"1", "5">>, scale |-> 1],
                               [neg |-> FALSE, digits |-> <<"2">>, scale |-> 0]>>))>>
           /\ d = D_empty_array
                 => result.recs[1].constraints = first \o <<DefaultValue(ArrayFloat(<<>>))>>
           /\ d \in {D_bad_int_array, D_text_array} => result = Panic

TextArrayFamily == {"Text", "Varchar", "Tinytext", "Mediumtext"}

\* C22: for a column that resolves to an array of a text type, a default
\* '{s1,..,sn}'::<type>[] gives DefaultValue(Literal::ArrayString([s1,..,sn])),
\* the elements as written and in the order written, and empty braces give
\* an ArrayString of no element.
C22_TextArrayDefault ==
    (/\ op = "get_column_specification"
     /\ reply.ok
     /\ Len(reply.rows) = 1
     /\ reply.rows[1].default.some
     /\ Resolves(reply.rows[1])
     /\ get_sql_type_capacity(reply.rows[1]).sql_type.t = "Array"
     /\ get_sql_type_capacity(reply.rows[1]).sql_type.elem \in TextArrayFamily
     /\ IsArrayForm(reply.rows[1].default.s))
    => LET row == reply.rows[1]
           d == row.default.s
           first == IF row.not_null THEN <<NotNull>> ELSE <<>>
       IN  /\ result.kind = "Ok"
           /\ result.recs[1].constraints
                 = first \o <<DefaultValue(ArrayString(ArrayElements(d)))>>
           /\ d = D_text_array
                 => result.recs[1].constraints
                       = first \o <<DefaultValue(ArrayString(<<<<"M", "o", "n">>,
                                                                <<"W", "e", "d">>>>))>>
           /\ d = D_empty_array
                 => result.recs[1].constraints = first \o <<DefaultValue(ArrayString(<<>>))>>

\* C23: for a Date column the default today(), now() or ('now'::text)::date
\* gives DefaultValue(Literal::CurrentDate), and every other default that is
\* neither "null" nor a nextval expression is fatal: neither a specification
\* nor an error is returned.
C23_DateDefault ==
    ResolvesDefaultOf({"Date"})
    => LET row == reply.rows[1]
       IN  IF row.default.s \in {D_today, D_now, D_now_text_date}
           THEN ResultOfLiteral(row, TRUE, CurrentDate)
           ELSE result = Panic

C23_Witness ==
    /\ op = "get_column_specification"
    /\ reply.ok
    /\ Len(reply.rows) = 1
    /\ reply.rows[1].data_type = "date"
    /\ reply.rows[1].default = Some(D_date_literal)
    /\ result = Panic

\* C24: get_columns returns the first error in query order and stops.  When
\* the column-list query fails, that error is returned and the column-list
\* query is the only call.  When the specification query of column i fails,
\* that error is returned without any column, the failed query is the last
\* call, and the statistics query of column i is not made.
C24_FirstError ==
    op = "get_columns"
    => /\ ~reply.ok
             => /\ result = Err(reply.err)
                /\ Len(calls) = 1
                /\ calls[1].sql = ColumnListSql
       /\ (reply.ok /\ reply.specs # <<>> /\ ~reply.specs[Len(reply.specs)].ok)
             => LET i == Len(reply.specs)
                IN  /\ result = Err(reply.specs[i].err)
                    /\ Len(calls) = 2 * i
                    /\ calls[2 * i].sql = ColumnSpecificationSql
                    /\ Len(reply.stats) = i - 1

\* whether a constraint list has the shape that a catalog row allows: NotNull
\* is in it exactly when the row is marked not_null, and then comes first;
\* besides NotNull it holds one DefaultValue or AutoIncrement when the row has
\* a default expression and nothing when it has none
ShapedBy(constraints, row) ==
    LET marks == {k \in 1..Len(constraints) : constraints[k].c = "NotNull"}
        defaults == {k \in 1..Len(constraints) :
                        constraints[k].c \in {"DefaultValue", "AutoIncrement"}}
    IN  /\ marks \cup defaults = 1..Len(constraints)
        /\ marks = (IF row.not_null THEN {1} ELSE {})
        /\ Cardinality(defaults) = (IF row.default.some THEN 1 ELSE 0)
        /\ Len(constraints) <= 2
        /\ \A j, k \in 1..Len(constraints) : constraints[j] = constraints[k] => j = k

\* C25: the constraint list of every ColumnSpecification returned, by
\* get_column_specification or inside a ColumnDef of get_columns, holds
\* NotNull exactly when the catalog row is marked not_null, as its first
\* element, and exactly one further element, a DefaultValue or an
\* AutoIncrement, when the row has a default expression and none otherwise;
\* it has at most two elements and no element twice.
C25_ConstraintListShape ==
    /\ (op = "get_column_specification" /\ result.kind = "Ok")
          => ShapedBy(result.recs[1].constraints, reply.rows[1])
    /\ (op = "get_columns" /\ result.kind = "Ok")
          => \A i \in 1..Len(result.recs) :
                ShapedBy(result.recs[i].specification.constraints, reply.specs[i].rows[1])

C25_Witness ==
    /\ op = "get_column_specification"
    /\ reply.ok
    /\ Len(reply.rows) = 1
    /\ reply.rows[1].not_null
    /\ reply.rows[1].data_type = "integer"
    /\ reply.rows[1].default = Some(D_nextval)
    /\ result.kind = "Ok"
    /\ Len(result.recs[1].constraints) = 2
    /\ result.recs[1].constraints[1] = NotNull
    /\ result.recs[1].constraints[2].c = "AutoIncrement"

====
